---- MODULE Spec2Model ----
(***************************************************************************)
(* Model of the AI recommendation core of the Kubota parts backend:        *)
(*   - AdaptedTicketProcessor.find_similar_issues  (hybrid search with     *)
(*     cascading fallback),                                                *)
(*   - AdaptedTicketProcessor.extract_recommended_parts (frequency         *)
(*     ranking of parts),                                                  *)
(*   - KubotaPartsAIAgent.process_issue (the seven-node linear workflow).  *)
(*   - AdaptedTicketProcessor in sequential use (process_existing_ticket,  *)
(*     save_recommendations and the connection they open and close),       *)
(*   - KubotaAIService.get_ai_recommendations and its fallback,            *)
(*   - part_service: update_stock, reserve_part, release_reserved_part.    *)
(*                                                                         *)
(* Text is modelled as a sequence of one-character strings.  Similarities  *)
(* are integers in hundredths, weights in tenths, so a similarity_score is *)
(* an integer in thousandths (0.65 is 650).  A confidence is an integer in *)
(* thousandths as well (round(x, 3) keeps three decimals).                 *)
(***************************************************************************)
EXTENDS Integers, Sequences, FiniteSets, TLC

VARIABLES
    store,         \* kubota_parts rows: a function claimid -> row
    call,          \* arguments of the find_similar_issues call under way
    queryLog,      \* the queries sent to the store by that call, in order
    fsi,           \* outcome of find_similar_issues: kind, path, rows, attempt
    cases,         \* argument of extract_recommended_parts
    recs,          \* its return value
    pc,            \* position of process_issue
    state,         \* KubotaAIState
    visited,       \* the values assigned to state.workflow_stage, in order
    failed,        \* the stage nodes whose try block raised in this run
    result,        \* the dict returned by process_issue
    conn,          \* self.conn of the agent's AdaptedTicketProcessor
    opened,        \* the database connections that are open
    inv,           \* the find_similar_issues calls of concurrent invocations
    symptoms,      \* what suggest_technical_symptoms handed the analyzer node
    proc,          \* the AdaptedTicketProcessor method call of sequential use
    svc,           \* the get_ai_recommendations call of KubotaAIService
    stock          \* the PartsInventory row of one part

vars == <<store, call, queryLog, fsi, cases, recs, pc, state, visited,
          failed, result, conn, opened, inv, symptoms, proc, svc,
          stock>>

searchVars == <<store, call, queryLog, fsi>>
extractVars == <<cases, recs>>
pipeVars == <<pc, state, visited, failed, result>>
connVars == <<conn, opened, inv>>
serviceVars == <<symptoms>>
backendVars == <<proc, svc, stock>>

----------------------------------------------------------------------------
(* Bounds *)

MaxCases == 3        \* longest case list handed to extract_recommended_parts
MaxRows == 2         \* most rows in the similarity store
MaxLimit == 2        \* largest limit argument of find_similar_issues
MaxStock == 5        \* most units of a part in stock, and largest quantity

----------------------------------------------------------------------------
(* Generic helpers *)

None == "None"

Min(a, b) == IF a < b THEN a ELSE b

Take(s, n) == SubSeq(s, 1, Min(Len(s), n))

RECURSIVE SeqSum(_)
SeqSum(s) == IF s = <<>> THEN 0 ELSE Head(s) + SeqSum(Tail(s))

Range(s) == {s[i] : i \in 1..Len(s)}

----------------------------------------------------------------------------
(* Text: str.split(','), str.strip, str.lower *)

LowerChar(c) ==
    CASE c = "A" -> "a" [] c = "B" -> "b" [] c = "C" -> "c" [] c = "D" -> "d"
      [] c = "E" -> "e" [] c = "F" -> "f" [] c = "G" -> "g" [] c = "H" -> "h"
      [] c = "I" -> "i" [] c = "J" -> "j" [] c = "K" -> "k" [] c = "L" -> "l"
      [] c = "M" -> "m" [] c = "N" -> "n" [] c = "O" -> "o" [] c = "P" -> "p"
      [] c = "Q" -> "q" [] c = "R" -> "r" [] c = "S" -> "s" [] c = "T" -> "t"
      [] c = "U" -> "u" [] c = "V" -> "v" [] c = "W" -> "w" [] c = "X" -> "x"
      [] c = "Y" -> "y" [] c = "Z" -> "z"
      [] OTHER -> c

Lower(s) == [i \in 1..Len(s) |-> LowerChar(s[i])]

RECURSIVE LStrip(_)
LStrip(s) == IF s # <<>> /\ Head(s) = " " THEN LStrip(Tail(s)) ELSE s

RECURSIVE RStrip(_)
RStrip(s) ==
    IF s # <<>> /\ s[Len(s)] = " " THEN RStrip(SubSeq(s, 1, Len(s) - 1)) ELSE s

Strip(s) == RStrip(LStrip(s))

\* str.split(','): the pieces between commas; "" splits into [""].
RECURSIVE SplitAcc(_, _, _)
SplitAcc(s, cur, out) ==
    IF s = <<>> THEN Append(out, cur)
    ELSE IF Head(s) = "," THEN SplitAcc(Tail(s), <<>>, Append(out, cur))
    ELSE SplitAcc(Tail(s), Append(cur, Head(s)), out)

Split(s) == SplitAcc(s, <<>>, <<>>)

NanToken == <<"n", "a", "n">>

----------------------------------------------------------------------------
(* extract_recommended_parts *)

TopParts == 10

\* parts_frequency[part] = parts_frequency.get(part, 0) + 1 on a dict that
\* keeps insertion order: a sequence of <<part, count>> pairs.
RECURSIVE Bump(_, _)
Bump(freq, part) ==
    IF freq = <<>> THEN << <<part, 1>> >>
    ELSE IF Head(freq)[1] = part
         THEN << <<part, Head(freq)[2] + 1>> >> \o Tail(freq)
         ELSE <<Head(freq)>> \o Bump(Tail(freq), part)

\* The inner loop over one case's split and stripped tokens.
RECURSIVE CountTokens(_, _)
CountTokens(freq, toks) ==
    IF toks = <<>> THEN freq
    ELSE LET part == Strip(Head(toks))
         IN  IF part # <<>> /\ Lower(part) # NanToken
             THEN CountTokens(Bump(freq, part), Tail(toks))
             ELSE CountTokens(freq, Tail(toks))

CaseTokensDistinct(part_str) ==
    LET toks == Split(part_str)
    IN  [i \in 1..Len(toks) |->
            IF \E j \in 1..(i - 1) : Strip(toks[j]) = Strip(toks[i])
            THEN <<>> ELSE toks[i]]

\* str(part_str).split(','): every piece, repeated ones included.
CaseTokens(part_str) == Split(part_str)

\* The outer loop over the cases; a NULL or empty partname is skipped.
RECURSIVE CountCases(_, _)
CountCases(freq, cs) ==
    IF cs = <<>> THEN freq
    ELSE LET part_str == Head(cs).partname
         IN  IF part_str # <<>>
             THEN CountCases(CountTokens(freq, CaseTokens(part_str)), Tail(cs))
             ELSE CountCases(freq, Tail(cs))

\* sorted(items, key=lambda x: x[1], reverse=True): stable, descending.
RECURSIVE InsertDesc(_, _)
InsertDesc(sorted, item) ==
    IF sorted = <<>> THEN <<item>>
    ELSE IF Head(sorted)[2] >= item[2]
         THEN <<Head(sorted)>> \o InsertDesc(Tail(sorted), item)
         ELSE <<item>> \o sorted

RECURSIVE SortedDesc(_)
SortedDesc(items) ==
    IF items = <<>> THEN <<>>
    ELSE InsertDesc(SortedDesc(SubSeq(items, 1, Len(items) - 1)),
                    items[Len(items)])

\* Rounding of the quotient a / b to an integer, ties to even (as round() and
\* the float formatting do on an exactly representable tie).
RoundHalfEven(a, b) ==
    LET q == a \div b
        r == a % b
    IN  IF 2 * r < b THEN q
        ELSE IF 2 * r > b THEN q + 1
        ELSE IF q % 2 = 0 THEN q ELSE q + 1

\* round(frequency / total_cases, 3), in thousandths.
Round3(num, den) == RoundHalfEven(1000 * num, den)

TotalCasesWithParts(similar_cases) ==
    Cardinality({i \in 1..Len(similar_cases) : similar_cases[i].partname # <<>>})

TotalCases(similar_cases) == Len(similar_cases)

Confidence(frequency, total_cases) ==
    IF total_cases # 0 THEN Round3(frequency, total_cases) ELSE 0

\* f"{frequency}/{total_cases} similar cases"
RecommendedFrom(frequency, total_cases) ==
    <<frequency, "/", total_cases, " similar cases">>

Recommendation(item, total_cases) ==
    [part_number |-> item[1],
     frequency |-> item[2],
     confidence |-> Confidence(item[2], total_cases),
     recommended_from |-> RecommendedFrom(item[2], total_cases)]

RankPartsReversedTies(parts_frequency) ==
    LET asc == SortedDesc([i \in 1..Len(parts_frequency) |->
                   <<parts_frequency[i][1], 0 - parts_frequency[i][2]>>])
    IN  [i \in 1..Len(asc) |->
            <<asc[Len(asc) + 1 - i][1], 0 - asc[Len(asc) + 1 - i][2]>>]

RankParts(parts_frequency) == SortedDesc(parts_frequency)

TruncateNothing(recommendations) == recommendations

Truncate(recommendations) == Take(recommendations, TopParts)

extract_recommended_parts(similar_cases) ==
    LET parts_frequency == CountCases(<<>>, similar_cases)
        total_cases == TotalCases(similar_cases)
        ranked == RankParts(parts_frequency)
        recommendations ==
            [i \in 1..Len(ranked) |-> Recommendation(ranked[i], total_cases)]
    IN  Truncate(recommendations)

----------------------------------------------------------------------------
(* find_similar_issues *)

NoVec == -1          \* a NULL embedding vector
CandidatePool == 20  \* LIMIT of every query
HalfWeight == 5      \* the fallback weight 0.5, in tenths
DefaultAlpha == 7    \* alpha = 0.7
DefaultCutoff == 650 \* min_cutoff = 0.65
EmbeddingDim == 1536 \* dimensions of a text-embedding-ada-002 vector
NaN == -2            \* the float NaN

\* A list of floats, kept as its length and whether every entry is 0.0.
NoVector == [kind |-> "none"]

Vector(dim, zero) == [kind |-> "vector", dim |-> dim, zero |-> zero]

\* client.embeddings.create: the remote model answers with its vector for
\* the text, or the call raises.
RemoteAnswers ==
    {[ok |-> FALSE, embedding |-> NoVector],
     [ok |-> TRUE, embedding |-> Vector(EmbeddingDim, FALSE)]}

generate_openai_embedding_always_remote(text, remote) ==
    IF remote.ok
    THEN [kind |-> "returned", embedding |-> remote.embedding, remote_calls |-> 1]
    ELSE [kind |-> "raised", embedding |-> NoVector, remote_calls |-> 1]

generate_openai_embedding(text, remote) ==
    IF text = <<>>
    THEN [kind |-> "returned", embedding |-> Vector(EmbeddingDim, TRUE),
          remote_calls |-> 0]
    ELSE IF remote.ok
    THEN [kind |-> "returned", embedding |-> remote.embedding, remote_calls |-> 1]
    ELSE [kind |-> "raised", embedding |-> NoVector, remote_calls |-> 1]

\* 1 - (stored vector <=> query vector), sim being the value for the vector
\* the remote model gives the query text: the cosine distance to a vector of
\* norm 0 is NaN.
CosineSimilarity(sim, query_embedding) ==
    IF sim = NoVec THEN NoVec
    ELSE IF query_embedding.zero THEN NaN
    ELSE sim

\* The rows of the store as the query vector sees them.
Against(st, query_embedding) ==
    [id \in DOMAIN st |->
        [st[id] EXCEPT !.simS = CosineSimilarity(@, query_embedding),
                       !.simD = CosineSimilarity(@, query_embedding)]]

AtLeastAnything(x, y) == TRUE

\* Comparisons of floats: NaN >= x is false in Python, and ORDER BY puts NaN
\* above every number.
AtLeast(x, y) == x # NaN /\ y # NaN /\ x >= y

SortsAbove(x, y) == (x = NaN /\ y # NaN) \/ (x # NaN /\ y # NaN /\ x > y)

\* field ILIKE '%pattern%': case-insensitive substring.
ILike(field, pattern) ==
    \E i \in 1..(Len(field) - Len(pattern) + 1) :
        Lower(SubSeq(field, i, i + Len(pattern) - 1)) = Lower(pattern)

\* alpha * (1 - symptom distance) + (1 - alpha) * (1 - defect distance)
SimilarityScore(row, alpha_value) ==
    IF row.simS = NaN \/ row.simD = NaN THEN NaN
    ELSE alpha_value * row.simS + (10 - alpha_value) * row.simD

\* WHERE both vectors are present [AND series or sub-assembly ILIKE type]
TypeFilter(with_type, issue_type) == with_type /\ issue_type # <<>>

Candidates(st, with_type, issue_type) ==
    {id \in DOMAIN st :
        /\ st[id].simS # NoVec
        /\ st[id].simD # NoVec
        /\ TypeFilter(with_type, issue_type) =>
              \/ ILike(st[id].seriesname, issue_type)
              \/ ILike(st[id].subassembly, issue_type)}

ResultRow(st, id, alpha_value) ==
    [claimid |-> id,
     seriesname |-> st[id].seriesname,
     subassembly |-> st[id].subassembly,
     partname |-> st[id].partname,
     similarity_score |-> SimilarityScore(st[id], alpha_value)]

\* ORDER BY similarity_score DESC: rows of equal score come in the order
\* the store picks, given here as a ranking tie[id] of the claim ids.
Before(st, alpha_value, tie, a, b) ==
    \/ SortsAbove(SimilarityScore(st[a], alpha_value),
                  SimilarityScore(st[b], alpha_value))
    \/ /\ SimilarityScore(st[a], alpha_value) = SimilarityScore(st[b], alpha_value)
       /\ tie[a] < tie[b]

RECURSIVE OrderBy(_, _, _, _)
OrderBy(st, ids, alpha_value, tie) ==
    IF ids = {} THEN <<>>
    ELSE LET first == CHOOSE a \in ids :
                         \A b \in ids \ {a} : Before(st, alpha_value, tie, a, b)
         IN  <<first>> \o OrderBy(st, ids \ {first}, alpha_value, tie)

\* run_query(alpha_value, with_type)
run_query(st, issue_type, alpha_value, with_type, tie) ==
    LET ids == OrderBy(st, Candidates(st, with_type, issue_type),
                       alpha_value, tie)
        rows == [i \in 1..Len(ids) |-> ResultRow(st, ids[i], alpha_value)]
    IN  Take(rows, CandidatePool)

Query(alpha_value, with_type, issue_type) ==
    [alpha_value |-> alpha_value,
     with_type |-> with_type,
     type_filter |-> TypeFilter(with_type, issue_type)]

\* The orders in which the store may hand back rows of equal score.
Rankings(st) ==
    {t \in [DOMAIN st -> DOMAIN st] : \A a, b \in DOMAIN st : a # b => t[a] # t[b]}

\* Lines 141-147: the guards of the primary query and of the fallbacks.
PrimaryGuard(rows) == TRUE
SecondGuardAlways(rows) == TRUE
SecondGuard(rows) == rows = <<>>
ThirdGuardAnyHint(rows, issue_type) == rows = <<>>
ThirdGuard(rows, issue_type) == rows = <<>> /\ issue_type # <<>>
FourthGuard(rows) == rows = <<>>

\* filtered = [r for r in rows if r.similarity_score >= min_cutoff]
RECURSIVE CutoffFilter(_, _)
CutoffFilter(rows, min_cutoff) ==
    IF rows = <<>> THEN <<>>
    ELSE IF AtLeast(Head(rows).similarity_score, min_cutoff)
         THEN <<Head(rows)>> \o CutoffFilter(Tail(rows), min_cutoff)
         ELSE CutoffFilter(Tail(rows), min_cutoff)

LimitSliceOffByOne(filtered, limit) == Take(filtered, limit + 1)

\* filtered[:limit]
LimitSlice(filtered, limit) == Take(filtered, limit)

\* The call and its position: the statement it executes next.
Started ==
    [kind |-> "running", step |-> "connect", path |-> "none", rows |-> <<>>,
     attempt |-> 0, embedding |-> NoVector, remote_calls |-> 0]

Finished(kind, path, rows, attempt) ==
    [fsi EXCEPT !.kind = kind, !.step = "done", !.path = path, !.rows = rows,
                !.attempt = attempt]

ExceptReraise == Finished("raised", "except", <<>>, 0)

\* except Exception: log and return []
ExceptReturn == Finished("returned", "except", <<>>, 0)

\* if not self.connect_to_database(): return []
NoConnectionReturn == Finished("returned", "noconn", <<>>, 0)

At(step) == fsi.kind = "running" /\ fsi.step = step

\* Line 102: the connection opens or not.
Connect ==
    /\ At("connect")
    /\ \E connOk \in BOOLEAN :
          fsi' = IF connOk THEN [fsi EXCEPT !.step = "embed"]
                 ELSE NoConnectionReturn
    /\ UNCHANGED <<queryLog, store, call, extractVars, connVars, serviceVars, backendVars, pipeVars>>

\* if not query_embedding: return []
EmptyEmbeddingReturn == Finished("returned", "noembed", <<>>, 0)

\* Lines 107-110: the cursor is made and the query text embedded; either may
\* raise.
Embed ==
    /\ At("embed")
    /\ \E cursorOk \in BOOLEAN, remote \in RemoteAnswers :
          LET e == generate_openai_embedding(call.issue_text, remote)
          IN  fsi' = IF ~cursorOk THEN ExceptReturn
                     ELSE IF e.kind = "raised"
                     THEN [ExceptReturn EXCEPT !.remote_calls = e.remote_calls]
                     ELSE IF e.embedding.dim = 0
                     THEN [EmptyEmbeddingReturn EXCEPT
                             !.embedding = e.embedding,
                             !.remote_calls = e.remote_calls]
                     ELSE [fsi EXCEPT !.step = "primary",
                                      !.embedding = e.embedding,
                                      !.remote_calls = e.remote_calls]
    /\ UNCHANGED <<queryLog, store, call, extractVars, connVars, serviceVars, backendVars, pipeVars>>

\* One "rows = run_query(...)" statement: skipped when its guard is false;
\* otherwise the query is sent, and cursor.execute raises or returns rows in
\* an order tie of the rows of equal score.
Attempt(step, next, guard, alpha_value, with_type) ==
    /\ At(step)
    /\ IF ~guard
       THEN /\ fsi' = [fsi EXCEPT !.step = next]
            /\ UNCHANGED queryLog
       ELSE /\ queryLog' = Append(queryLog,
                                  Query(alpha_value, with_type, call.issue_type))
            /\ \E fault \in BOOLEAN, tie \in Rankings(store) :
                  fsi' = IF fault THEN ExceptReturn
                         ELSE [fsi EXCEPT
                                 !.step = next,
                                 !.rows = run_query(Against(store, fsi.embedding),
                                                    call.issue_type,
                                                    alpha_value, with_type, tie),
                                 !.attempt = Len(queryLog) + 1]
    /\ UNCHANGED <<store, call, extractVars, connVars, serviceVars, backendVars, pipeVars>>

\* rows = run_query(alpha, True)
PrimaryQuery ==
    Attempt("primary", "second", PrimaryGuard(fsi.rows), call.alpha, TRUE)

\* if not rows: rows = run_query(0.5, True)
SecondQuery ==
    Attempt("second", "third", SecondGuard(fsi.rows), HalfWeight, TRUE)

\* if not rows and issue_type: rows = run_query(alpha, False)
ThirdQuery ==
    Attempt("third", "fourth", ThirdGuard(fsi.rows, call.issue_type),
            call.alpha, FALSE)

\* if not rows: rows = run_query(0.5, False)
FourthQuery ==
    Attempt("fourth", "filter", FourthGuard(fsi.rows), HalfWeight, FALSE)

\* Lines 149-150: the cutoff and the slice; the finally clause closes the
\* cursor and the connection.
FilterAndReturn ==
    /\ At("filter")
    /\ fsi' = Finished("returned", "normal",
                       LimitSlice(CutoffFilter(fsi.rows, call.min_cutoff),
                                  call.limit),
                       fsi.attempt)
    /\ UNCHANGED <<queryLog, store, call, extractVars, connVars, serviceVars, backendVars, pipeVars>>

\* One step of a running find_similar_issues call.
find_similar_issues ==
    \/ Connect
    \/ Embed
    \/ PrimaryQuery
    \/ SecondQuery
    \/ ThirdQuery
    \/ FourthQuery
    \/ FilterAndReturn

----------------------------------------------------------------------------
(* Inputs and environments *)

Hints == {<<>>, <<"l">>, <<"z">>}

SeriesKinds ==
    {[seriesname |-> <<"L">>, subassembly |-> <<"h">>],
     [seriesname |-> <<"B", "X">>, subassembly |-> <<"h">>],
     [seriesname |-> <<"B", "X">>, subassembly |-> <<"h", "L">>]}

SimKinds ==
    {[simS |-> 90, simD |-> 90], [simS |-> 90, simD |-> 30],
     [simS |-> 30, simD |-> 90], [simS |-> NoVec, simD |-> 90]}

StoreRow(k, v, parts) ==
    [seriesname |-> k.seriesname, subassembly |-> k.subassembly,
     simS |-> v.simS, simD |-> v.simD, partname |-> parts]

SearchRows == {StoreRow(k, v, <<"A">>) : k \in SeriesKinds, v \in SimKinds}

Stores(rows, n) == UNION {[1..m -> rows] : m \in 0..n}

Calls ==
    [issue_text : {<<"o", "i", "l">>, <<>>},
     issue_type : Hints,
     limit : 0..MaxLimit,
     alpha : {DefaultAlpha, 9},
     min_cutoff : {DefaultCutoff, 500}]

IdleFsi ==
    [kind |-> "idle", step |-> "none", path |-> "none", rows |-> <<>>,
     attempt |-> 0, embedding |-> NoVector, remote_calls |-> 0]

IdleCall ==
    [issue_text |-> <<>>, issue_type |-> <<>>, limit |-> 0,
     alpha |-> DefaultAlpha, min_cutoff |-> DefaultCutoff]

IdleRecs == [done |-> FALSE, out |-> <<>>]

NoArgs == [user_issue |-> <<>>, machine_series |-> <<>>]

\* self.conn = None, and the invocations of the concurrent specification
\* not begun.
Invocations == {1, 2}

NoConn == 0

IdleInv ==
    [step |-> "idle", kind |-> "none", path |-> "none", cursor |-> NoConn,
     closed |-> {}, replaced |-> NoConn, rows |-> <<>>]

IdleConn ==
    /\ conn = NoConn
    /\ opened = {}
    /\ inv = [i \in Invocations |-> IdleInv]

\* No service has been called.
NoAnswer == [kind |-> "none"]

IdleServices == symptoms = NoAnswer

\* No processor method, service request or inventory operation under way.
IdleProc == [kind |-> "idle"]

IdleSvc == [kind |-> "idle"]

IdleStock == [kind |-> "idle"]

IdleBackend == proc = IdleProc /\ svc = IdleSvc /\ stock = IdleStock

IdlePipe ==
    /\ pc = "idle"
    /\ state = NoArgs
    /\ visited = <<>>
    /\ failed = {}
    /\ result = <<>>
    /\ IdleConn
    /\ IdleServices
    /\ IdleBackend

----------------------------------------------------------------------------
(* Specification of find_similar_issues called on its own *)

InitSearch ==
    /\ store \in Stores(SearchRows, MaxRows)
    /\ call \in Calls
    /\ queryLog = <<>>
    /\ fsi = Started
    /\ cases = <<>>
    /\ recs = IdleRecs
    /\ IdlePipe

NextSearch == find_similar_issues

SpecSearch == InitSearch /\ [][NextSearch]_vars

----------------------------------------------------------------------------
(* Specification of extract_recommended_parts called on its own *)

PartFields ==
    {<<>>,
     <<"A">>,
     <<"A", ",", " ", "B">>,
     <<"B", ",", "A">>,
     <<"A", ",", "A">>,
     <<" ", "N", "a", "N", ",", ",", "B", " ">>,
     <<"A", ",", "B", ",", "C", ",", "D", ",", "E", ",", "F", ",", "G", ",",
       "H", ",", "I", ",", "J", ",", "K">>,
     <<"K">>}

SimilarCase(id, parts) ==
    [claimid |-> id, seriesname |-> <<"L">>, subassembly |-> <<"h">>,
     partname |-> parts, similarity_score |-> 900]

CaseLists ==
    UNION {{[i \in 1..m |-> SimilarCase(i, f[i])] : f \in [1..m -> PartFields]} :
              m \in 0..MaxCases}

InitExtract ==
    /\ cases \in CaseLists
    /\ recs = IdleRecs
    /\ store = <<>>
    /\ call = IdleCall
    /\ queryLog = <<>>
    /\ fsi = IdleFsi
    /\ IdlePipe

ExtractRecommendedParts ==
    /\ ~recs.done
    /\ recs' = [done |-> TRUE, out |-> extract_recommended_parts(cases)]
    /\ UNCHANGED <<cases, searchVars, pipeVars, connVars, serviceVars, backendVars>>

NextExtract == ExtractRecommendedParts

SpecExtract == InitExtract /\ [][NextExtract]_vars

----------------------------------------------------------------------------
(* KubotaPartsAIAgent: the workflow graph *)

EntryPoint == "symptom_analyzer"
End == "END"

\* workflow.add_edge(a, b)
Edges ==
    {<<"symptom_analyzer", "embedding_generator">>,
     <<"embedding_generator", "similarity_searcher">>,
     <<"similarity_searcher", "parts_recommender">>,
     <<"parts_recommender", "inventory_checker">>,
     <<"inventory_checker", "confidence_evaluator">>,
     <<"confidence_evaluator", "recommendation_formatter">>,
     <<"recommendation_formatter", End>>}

NodeNames == {e[1] : e \in Edges}

NextNodeSkippingInventory(n) ==
    IF n = "parts_recommender" THEN "confidence_evaluator"
    ELSE (CHOOSE e \in Edges : e[1] = n)[2]

NextNode(n) == (CHOOSE e \in Edges : e[1] = n)[2]

\* dict.get(key, default)
DictGet(d, key, default) == IF key \in DOMAIN d THEN d[key] ELSE default

LogOverwrite(st, message, n) ==
    [st EXCEPT !.processing_log = <<[msg |-> message, n |-> n]>>]

\* state["processing_log"].append(f"message {n}")
LogAppend(st, message, n) ==
    [st EXCEPT !.processing_log = Append(@, [msg |-> message, n |-> n])]

\* What a node hands back to the graph: the state, the values it assigned to
\* workflow_stage, whether its except clause ran, and whether an exception
\* left the node.
OutcomeReraised(st, stages, caught) ==
    [st |-> st, stages |-> stages, caught |-> caught, escaped |-> caught]

Outcome(st, stages, caught) ==
    [st |-> st, stages |-> stages, caught |-> caught, escaped |-> FALSE]

\* initial_state of process_issue
InitialState(user_issue, machine_series) ==
    [user_issue |-> user_issue,
     machine_series |-> machine_series,
     processed_symptoms |-> <<>>,
     embedding_vector |-> None,
     similar_cases |-> <<>>,
     recommended_parts |-> <<>>,
     confidence_scores |-> [kind |-> "empty"],
     inventory_status |-> [kind |-> "empty"],
     final_recommendations |-> <<>>,
     explanation |-> <<>>,
     next_actions |-> <<>>,
     workflow_stage |-> "initialized",
     processing_log |-> <<>>,
     error_message |-> None]

----------------------------------------------------------------------------
(* Node 1: symptom_analyzer_node *)

MaxSuggestions == 2  \* most suggestions the symptom service hands back here

\* A dict of SymptomSuggestionService.suggest_technical_symptoms.
Suggestion(text) ==
    [suggestion |-> text, confidence |-> 900, source |-> "ai_generated"]

\* combined_suggestions[:5]
TopSuggestions == 5

\* The dict of the except clause of suggest_technical_symptoms.
OriginalSuggestion(user_symptom) ==
    [suggestion |-> user_symptom, confidence |-> 1000, source |-> "original"]

\* SymptomSuggestionService.suggest_technical_symptoms: the ranked
\* suggestions, or the original text as the only suggestion when anything
\* raised inside the service.
suggest_technical_symptoms(user_symptom, env) ==
    IF env.error
    THEN <<OriginalSuggestion(user_symptom)>>
    ELSE Take(env.suggestions, TopSuggestions)

SymptomExcept(st) ==
    [st EXCEPT !.error_message = "Symptom analysis failed",
               !.processed_symptoms = <<st.user_issue>>]

symptom_analyzer_node(st, env) ==
    LET s1 == LogAppend([st EXCEPT !.workflow_stage = "symptom_analysis"],
                        "Starting symptom analysis", 0)
        technical_symptoms == suggest_technical_symptoms(st.user_issue, env)
        extracted ==
            [i \in 1..Len(technical_symptoms) |->
                DictGet(technical_symptoms[i], "technical_symptom",
                        DictGet(technical_symptoms[i], "symptom", <<>>))]
        processed_symptoms ==
            IF extracted = <<>> THEN <<st.user_issue>> ELSE extracted
    IN  IF env.fail
        THEN Outcome(SymptomExcept(s1), <<"symptom_analysis">>, TRUE)
        ELSE Outcome(LogAppend([s1 EXCEPT !.processed_symptoms = processed_symptoms],
                               "Generated processed symptoms",
                               Len(processed_symptoms)),
                     <<"symptom_analysis">>, FALSE)

----------------------------------------------------------------------------
(* Node 2: embedding_generator_node *)

EmbeddingExcept(st) ==
    [st EXCEPT !.error_message = "Embedding generation failed",
               !.embedding_vector = None]

embedding_generator_node(st, env) ==
    LET s1 == LogAppend([st EXCEPT !.workflow_stage = "embedding_generation"],
                        "Generating embeddings for symptom matching", 0)
    IN  IF env.fail
        THEN Outcome(EmbeddingExcept(s1), <<"embedding_generation">>, TRUE)
        ELSE Outcome(LogAppend([s1 EXCEPT !.embedding_vector = "vector"],
                               "Generated embedding vector", EmbeddingDim),
                     <<"embedding_generation">>, FALSE)

----------------------------------------------------------------------------
(* Node 3: similarity_searcher_node *)

PipelineLimit == 10

General == <<"g", "e", "n", "e", "r", "a", "l">>

SimilarityExcept(st) ==
    [st EXCEPT !.error_message = "Similarity search failed",
               !.similar_cases = <<>>]

\* The arguments of the find_similar_issues call of the node.
SearchCall(st) ==
    IF st.embedding_vector = None
    THEN [issue_text |-> st.user_issue, issue_type |-> General,
          limit |-> PipelineLimit, alpha |-> DefaultAlpha,
          min_cutoff |-> DefaultCutoff]
    ELSE [issue_text |-> st.user_issue, issue_type |-> <<>>,
          limit |-> PipelineLimit, alpha |-> DefaultAlpha,
          min_cutoff |-> 650]

\* Lines 176-194: up to the find_similar_issues call.
similarity_searcher_call(st) ==
    LET s1 == LogAppend([st EXCEPT !.workflow_stage = "similarity_search"],
                        "Searching for similar cases using vector similarity", 0)
    IN  IF st.embedding_vector = None
        THEN LogAppend(s1, "No embedding available, falling back to text search", 0)
        ELSE s1

\* Lines 196-206: from the return of find_similar_issues (r) on.
similarity_searcher_node(st, r, env) ==
    IF env.fail \/ r.kind = "raised"
    THEN Outcome(SimilarityExcept(st), <<>>, TRUE)
    ELSE Outcome(LogAppend([st EXCEPT !.similar_cases = r.rows],
                           "Found similar cases", Len(r.rows)),
                 <<>>, FALSE)

----------------------------------------------------------------------------
(* Node 4: parts_recommender_node *)

PartsExcept(st) ==
    [st EXCEPT !.error_message = "Parts recommendation failed",
               !.recommended_parts = <<>>]

FormattedPart(part) ==
    [part_number |-> DictGet(part, "part_number", DictGet(part, "partnumber", <<>>)),
     confidence |-> DictGet(part, "confidence", 0),
     frequency |-> DictGet(part, "frequency", 0),
     reasoning |-> DictGet(part, "reasoning",
                           DictGet(part, "recommendedfrom", "Historical data")),
     source_cases |-> DictGet(part, "source_cases", <<>>)]

parts_recommender_node(st, env) ==
    LET s1 == LogAppend([st EXCEPT !.workflow_stage = "parts_recommendation"],
                        "Extracting parts recommendations from similar cases", 0)
        recommended_parts == extract_recommended_parts(st.similar_cases)
        formatted_parts ==
            [i \in 1..Len(recommended_parts) |-> FormattedPart(recommended_parts[i])]
    IN  IF st.similar_cases = <<>>
        THEN Outcome([s1 EXCEPT !.recommended_parts = <<>>],
                     <<"parts_recommendation">>, FALSE)
        ELSE IF env.fail
        THEN Outcome(PartsExcept(s1), <<"parts_recommendation">>, TRUE)
        ELSE Outcome(LogAppend([s1 EXCEPT !.recommended_parts = formatted_parts],
                               "Recommended parts", Len(formatted_parts)),
                     <<"parts_recommendation">>, FALSE)

----------------------------------------------------------------------------
(* Node 5: inventory_checker_node *)

MockQuantity == 10
MockCost == 4550     \* 45.50, in hundredths

InventoryExcept(st) == [st EXCEPT !.inventory_status = [kind |-> "error"]]

StockInfo(part_number) ==
    [part_number |-> part_number, in_stock |-> TRUE,
     quantity |-> MockQuantity, estimated_cost |-> MockCost]

inventory_checker_node(st, env) ==
    LET s1 == LogAppend([st EXCEPT !.workflow_stage = "inventory_check"],
                        "Checking inventory availability", 0)
        numbered == SelectSeq(st.recommended_parts,
                              LAMBDA part : DictGet(part, "part_number", <<>>) # <<>>)
        available == [i \in 1..Len(numbered) |-> StockInfo(numbered[i].part_number)]
        inventory_status ==
            [kind |-> "status",
             available_parts |-> available,
             out_of_stock_parts |-> <<>>,
             low_stock_parts |-> <<>>,
             total_estimated_cost |->
                 SeqSum([i \in 1..Len(available) |-> available[i].estimated_cost])]
    IN  IF env.fail
        THEN Outcome(InventoryExcept(s1), <<"inventory_check">>, TRUE)
        ELSE Outcome(LogAppend([s1 EXCEPT !.inventory_status = inventory_status],
                               "Checked inventory for parts",
                               Len(st.recommended_parts)),
                     <<"inventory_check">>, FALSE)

----------------------------------------------------------------------------
(* Node 6: confidence_evaluator_node *)

\* Scores are fractions num / den of thousandths.
Frac(num, den) == [num |-> num, den |-> den]

MeanOfNothingIsOne(values) ==
    IF values = <<>> THEN Frac(1, 1) ELSE Frac(SeqSum(values), Len(values))

Mean(values) ==
    IF values = <<>> THEN Frac(0, 1) ELSE Frac(SeqSum(values), Len(values))

\* case_similarity * 0.4 + parts_confidence * 0.6
Overall(case_similarity, parts_confidence) ==
    Frac(4 * case_similarity.num * parts_confidence.den
            + 6 * parts_confidence.num * case_similarity.den,
         10 * case_similarity.den * parts_confidence.den)

\* x > threshold, the threshold in thousandths
Above(x, threshold) == x.num > threshold * x.den

TierInclusive(x, high, medium, low) ==
    IF x.num >= 800 * x.den THEN high
    ELSE IF x.num >= 600 * x.den THEN medium ELSE low

Tier(x, high, medium, low) ==
    IF Above(x, 800) THEN high ELSE IF Above(x, 600) THEN medium ELSE low

ConfidenceExcept(st) == [st EXCEPT !.confidence_scores = [kind |-> "error"]]

confidence_evaluator_node(st, env) ==
    LET s1 == LogAppend([st EXCEPT !.workflow_stage = "confidence_evaluation"],
                        "Evaluating recommendation confidence", 0)
        case_similarity ==
            Mean([i \in 1..Len(st.similar_cases) |->
                    DictGet(st.similar_cases[i], "similarity_score",
                            DictGet(st.similar_cases[i], "similarityscore", 0))])
        parts_confidence ==
            Mean([i \in 1..Len(st.recommended_parts) |->
                    DictGet(st.recommended_parts[i], "confidence", 0)])
        overall == Overall(case_similarity, parts_confidence)
        confidence_scores ==
            [kind |-> "scores",
             case_similarity |-> case_similarity,
             parts_confidence |-> parts_confidence,
             overall_confidence |-> overall,
             quality |-> Tier(overall, "high", "medium", "low")]
    IN  IF env.fail
        THEN Outcome(ConfidenceExcept(s1), <<"confidence_evaluation">>, TRUE)
        ELSE Outcome(LogAppend([s1 EXCEPT !.confidence_scores = confidence_scores],
                               "Overall confidence",
                               RoundHalfEven(overall.num, 10 * overall.den)),
                     <<"confidence_evaluation">>, FALSE)

----------------------------------------------------------------------------
(* Node 7: recommendation_formatter_node *)

FormatterExcept(st) == [st EXCEPT !.error_message = "Formatting failed"]

FinalRecommendation(part) ==
    [part_number |-> DictGet(part, "part_number", <<>>),
     confidence |-> DictGet(part, "confidence", 0),
     frequency |-> DictGet(part, "frequency", 0),
     reasoning |-> DictGet(part, "reasoning", <<>>),
     priority |-> IF DictGet(part, "confidence", 0) > 800 THEN "high"
                  ELSE IF DictGet(part, "confidence", 0) > 600 THEN "medium"
                  ELSE "low"]

\* list.sort(key=confidence, reverse=True): stable, descending.
RECURSIVE InsertByConfidence(_, _)
InsertByConfidence(sorted, rec) ==
    IF sorted = <<>> THEN <<rec>>
    ELSE IF Head(sorted).confidence >= rec.confidence
         THEN <<Head(sorted)>> \o InsertByConfidence(Tail(sorted), rec)
         ELSE <<rec>> \o sorted

RECURSIVE SortByConfidence(_)
SortByConfidence(rs) ==
    IF rs = <<>> THEN <<>>
    ELSE InsertByConfidence(SortByConfidence(SubSeq(rs, 1, Len(rs) - 1)),
                            rs[Len(rs)])

Unsorted(final_recommendations) == final_recommendations

\* final_recommendations.sort(key=lambda x: x["confidence"], reverse=True)
SortRecommendations(final_recommendations) ==
    SortByConfidence(final_recommendations)

NextActionsOrderAlways(confidence, inventory_status) ==
    <<Tier(confidence, "Proceed with high-confidence recommendations",
           "Review recommendations with technician",
           "Gather more diagnostic information"),
      "Order out-of-stock parts">>

NextActions(confidence, inventory_status) ==
    <<Tier(confidence, "Proceed with high-confidence recommendations",
           "Review recommendations with technician",
           "Gather more diagnostic information")>>
    \o (IF DictGet(inventory_status, "out_of_stock_parts", <<>>) # <<>>
        THEN <<"Order out-of-stock parts">> ELSE <<>>)

\* env.failAt: 0 when no statement raises, 1 when one raises before
\* final_recommendations is stored, 2 when one raises after that.
recommendation_formatter_node(st, env) ==
    LET s1 == LogAppend([st EXCEPT !.workflow_stage = "formatting"],
                        "Formatting final recommendations", 0)
        final_recommendations ==
            SortRecommendations([i \in 1..Len(st.recommended_parts) |->
                                    FinalRecommendation(st.recommended_parts[i])])
        s2 == [s1 EXCEPT !.final_recommendations = final_recommendations]
        confidence == DictGet(st.confidence_scores, "overall_confidence", Frac(0, 1))
        case_count == Len(st.similar_cases)
        explanation ==
            [issue |-> st.user_issue, case_count |-> case_count,
             recommended |-> Len(final_recommendations),
             confidence |-> RoundHalfEven(confidence.num, 10 * confidence.den)]
        s3 == [s2 EXCEPT !.explanation = explanation,
                         !.next_actions = NextActions(confidence, st.inventory_status),
                         !.workflow_stage = "completed"]
    IN  IF env.failAt = 1
        THEN Outcome(FormatterExcept(s1), <<"formatting">>, TRUE)
        ELSE IF env.failAt = 2
        THEN Outcome(FormatterExcept(s2), <<"formatting">>, TRUE)
        ELSE Outcome(LogAppend(s3, "Workflow completed successfully", 0),
                     <<"formatting", "completed">>, FALSE)

----------------------------------------------------------------------------
(* process_issue *)

\* The dict returned after compiled_workflow.invoke
SuccessResult(user_issue, final_state) ==
    [success |-> TRUE,
     workflow_completed |-> TRUE,
     user_issue |-> user_issue,
     final_recommendations |-> final_state.final_recommendations,
     explanation |-> final_state.explanation,
     confidence_scores |-> final_state.confidence_scores,
     similar_cases_count |-> Len(final_state.similar_cases),
     inventory_status |-> final_state.inventory_status,
     next_actions |-> final_state.next_actions,
     processing_log |-> final_state.processing_log,
     embedding_used |-> final_state.embedding_vector # None,
     error_message |-> final_state.error_message]

\* The dict returned by the except clause of process_issue
FailureResult(user_issue) ==
    [success |-> FALSE,
     error |-> "error",
     user_issue |-> user_issue,
     final_recommendations |-> <<>>,
     explanation |-> "Workflow failed",
     embedding_used |-> FALSE]

NodeEnvs == [fail : BOOLEAN]

SymptomEnvs ==
    [fail : BOOLEAN,
     error : BOOLEAN,
     suggestions : UNION {[1..n -> {Suggestion(<<"l", "e", "a", "k">>)}] :
                             n \in 0..MaxSuggestions}]

FormatterEnvs == [failAt : 0..2]

\* The graph runs node n: the node's result becomes the state and the edge
\* out of n is followed; an exception leaving the node ends invoke and is
\* caught by process_issue.
RunNode(n, r) ==
    /\ pc = n
    /\ visited' = visited \o r.stages
    /\ failed' = IF r.caught \/ r.escaped THEN failed \union {n} ELSE failed
    /\ state' = r.st
    /\ IF r.escaped
       THEN /\ pc' = "returned"
            /\ result' = FailureResult(state.user_issue)
       ELSE /\ pc' = NextNode(n)
            /\ result' = result

\* Lines 426-446: the initial state is built and the graph compiled.
Initialize ==
    /\ pc = "idle"
    /\ state' = InitialState(state.user_issue, state.machine_series)
    /\ pc' = EntryPoint
    /\ UNCHANGED <<searchVars, extractVars, connVars, serviceVars, backendVars, visited, failed, result>>

SymptomAnalyzer ==
    /\ \E env \in SymptomEnvs :
          /\ RunNode("symptom_analyzer", symptom_analyzer_node(state, env))
          /\ symptoms' = [kind |-> "answer", error |-> env.error,
                          list |-> suggest_technical_symptoms(state.user_issue,
                                                              env)]
    /\ UNCHANGED <<searchVars, extractVars, connVars, backendVars>>

EmbeddingGenerator ==
    /\ \E env \in NodeEnvs :
          RunNode("embedding_generator", embedding_generator_node(state, env))
    /\ UNCHANGED <<searchVars, extractVars, connVars, serviceVars, backendVars>>

\* The node runs up to its find_similar_issues call.
SimilarityCall ==
    /\ pc = "similarity_searcher"
    /\ fsi.kind = "idle"
    /\ state' = similarity_searcher_call(state)
    /\ visited' = Append(visited, "similarity_search")
    /\ call' = SearchCall(state)
    /\ fsi' = Started
    /\ UNCHANGED <<store, queryLog, extractVars, connVars, serviceVars, backendVars, pc, failed, result>>

\* The call is over and the node finishes.
SimilaritySearcher ==
    /\ fsi.kind \in {"returned", "raised"}
    /\ \E env \in NodeEnvs :
          RunNode("similarity_searcher",
                  similarity_searcher_node(state, fsi, env))
    /\ UNCHANGED <<searchVars, extractVars, connVars, serviceVars, backendVars>>

PartsRecommender ==
    /\ \E env \in NodeEnvs :
          RunNode("parts_recommender", parts_recommender_node(state, env))
    /\ UNCHANGED <<searchVars, extractVars, connVars, serviceVars, backendVars>>

InventoryChecker ==
    /\ \E env \in NodeEnvs :
          RunNode("inventory_checker", inventory_checker_node(state, env))
    /\ UNCHANGED <<searchVars, extractVars, connVars, serviceVars, backendVars>>

ConfidenceEvaluator ==
    /\ \E env \in NodeEnvs :
          RunNode("confidence_evaluator", confidence_evaluator_node(state, env))
    /\ UNCHANGED <<searchVars, extractVars, connVars, serviceVars, backendVars>>

RecommendationFormatter ==
    /\ \E env \in FormatterEnvs :
          RunNode("recommendation_formatter",
                  recommendation_formatter_node(state, env))
    /\ UNCHANGED <<searchVars, extractVars, connVars, serviceVars, backendVars>>

\* Lines 449-471: invoke has returned the final state.
ReturnResult ==
    /\ pc = End
    /\ result' = SuccessResult(state.user_issue, state)
    /\ pc' = "returned"
    /\ UNCHANGED <<searchVars, extractVars, connVars, serviceVars, backendVars, state, visited, failed>>

\* Lines 473-482: an exception raised by the orchestration itself (building
\* or compiling the graph, the graph runtime between two nodes, assembling
\* the result) is caught by process_issue.
OrchestrationFailure ==
    /\ pc \in {"idle", End} \union NodeNames
    /\ fsi.kind = "idle" \/ pc # "similarity_searcher"
    /\ result' = FailureResult(state.user_issue)
    /\ failed' = failed \union {"orchestration"}
    /\ pc' = "returned"
    /\ UNCHANGED <<searchVars, extractVars, connVars, serviceVars, backendVars, state, visited>>

PipeRows ==
    {StoreRow([seriesname |-> <<"L">>, subassembly |-> <<"G", "e", "n", "e", "r", "a", "l">>],
              [simS |-> 90, simD |-> 90], <<"A", ",", " ", "B">>),
     StoreRow([seriesname |-> <<"L">>, subassembly |-> <<"h">>],
              [simS |-> 90, simD |-> 30], <<"B">>),
     StoreRow([seriesname |-> <<"B", "X">>, subassembly |-> <<"h">>],
              [simS |-> 90, simD |-> 90], <<>>),
     StoreRow([seriesname |-> <<"B", "X">>, subassembly |-> <<"h">>],
              [simS |-> 30, simD |-> 90], <<"A">>)}

Init ==
    /\ store \in Stores(PipeRows, MaxRows)
    /\ call = IdleCall
    /\ queryLog = <<>>
    /\ fsi = IdleFsi
    /\ cases = <<>>
    /\ recs = IdleRecs
    /\ pc = "idle"
    /\ state = [user_issue |-> <<"o", "i", "l">>, machine_series |-> <<"L">>]
    /\ visited = <<>>
    /\ failed = {}
    /\ result = <<>>
    /\ IdleConn
    /\ IdleServices
    /\ IdleBackend

Next ==
    \/ Initialize
    \/ SymptomAnalyzer
    \/ EmbeddingGenerator
    \/ SimilarityCall
    \/ find_similar_issues
    \/ SimilaritySearcher
    \/ PartsRecommender
    \/ InventoryChecker
    \/ ConfidenceEvaluator
    \/ RecommendationFormatter
    \/ ReturnResult
    \/ OrchestrationFailure

Spec == Init /\ [][Next]_vars

----------------------------------------------------------------------------
(* Specification of the confidence evaluator and the formatter called on    *)
(* any case list, recommendation list and inventory answer                  *)

MaxParts == 2        \* longest recommendation list handed to the two nodes

NodeScores == {600, 800, 1000}

NodeConfidences == {500, 600, 601, 800, 801, 1000}

PartNames == <<<<"A">>, <<"B">>, <<"C">>, <<"D">>>>

NodeCaseLists ==
    UNION {{[i \in 1..m |->
                [SimilarCase(i, <<"A">>) EXCEPT !.similarity_score = f[i]]] :
              f \in [1..m -> NodeScores]} : m \in 0..MaxCases}

\* Recommendations in the shape parts_recommender_node stores them.
NodePartLists ==
    UNION {{[i \in 1..m |->
                [part_number |-> PartNames[i], confidence |-> f[i],
                 frequency |-> 1, reasoning |-> "Historical data",
                 source_cases |-> <<>>]] :
              f \in [1..m -> NodeConfidences]} : m \in 0..MaxParts}

\* What an inventory check may leave in the state for these parts: nothing,
\* its error dict, or a status that files each part under available_parts or
\* under out_of_stock_parts.
InventoryAnswers(recommended_parts) ==
    {[kind |-> "empty"], [kind |-> "error"]}
    \union
    {[kind |-> "status",
      available_parts |->
          SelectSeq([i \in 1..Len(recommended_parts) |->
                        StockInfo(recommended_parts[i].part_number)],
                    LAMBDA info : info.part_number \notin out),
      out_of_stock_parts |->
          SelectSeq([i \in 1..Len(recommended_parts) |->
                        [StockInfo(recommended_parts[i].part_number)
                            EXCEPT !.in_stock = FALSE, !.quantity = 0]],
                    LAMBDA info : info.part_number \in out),
      low_stock_parts |-> <<>>,
      total_estimated_cost |->
          MockCost * Cardinality({i \in 1..Len(recommended_parts) :
                                    recommended_parts[i].part_number \notin out})] :
       out \in SUBSET {recommended_parts[i].part_number :
                          i \in 1..Len(recommended_parts)}}

InitNodes ==
    /\ store = <<>>
    /\ call = IdleCall
    /\ queryLog = <<>>
    /\ fsi = IdleFsi
    /\ cases = <<>>
    /\ recs = IdleRecs
    /\ pc = "confidence_evaluator"
    /\ \E similar_cases \in NodeCaseLists, recommended_parts \in NodePartLists :
          \E inventory_status \in InventoryAnswers(recommended_parts) :
             state = [InitialState(<<"o", "i", "l">>, <<"L">>) EXCEPT
                         !.similar_cases = similar_cases,
                         !.recommended_parts = recommended_parts,
                         !.inventory_status = inventory_status,
                         !.workflow_stage = "inventory_check"]
    /\ visited = <<>>
    /\ failed = {}
    /\ result = <<>>
    /\ IdleConn
    /\ IdleServices
    /\ IdleBackend

NextNodes ==
    \/ ConfidenceEvaluator
    \/ RecommendationFormatter

SpecNodes == InitNodes /\ [][NextNodes]_vars

----------------------------------------------------------------------------
(* Two invocations of process_issue on one agent, each at the               *)
(* find_similar_issues call of its similarity_searcher node.  Both go       *)
(* through self.processor, so through its one conn field.  The database     *)
(* accepts every connection and the remote model answers, so that every     *)
(* failure seen here comes from the interleaving.                           *)

\* The call of lines 190-194.
ConcCall ==
    SearchCall([user_issue |-> <<"o", "i", "l">>, embedding_vector |-> "vector"])

QueryVector == Vector(EmbeddingDim, FALSE)

InvAt(i, step) == inv[i].step = step

\* An exception inside the try block: the except clause takes [] as the
\* value to return and the finally clause runs.
InvExcept(i) ==
    [inv EXCEPT ![i].step = "disconnect", ![i].path = "except", ![i].rows = <<>>]

\* Line 22: self.conn = connect_to_database(); the connection opened by
\* invocation i is connection i.
ConcConnect(i) ==
    /\ InvAt(i, "connect")
    /\ conn' = i
    /\ opened' = opened \union {i}
    /\ inv' = [inv EXCEPT ![i].step = "check", ![i].replaced = conn]
    /\ UNCHANGED <<searchVars, extractVars, pipeVars, serviceVars, backendVars>>

\* Lines 23 and 102: return self.conn is not None ... or self.conn is None
ConcCheck(i) ==
    /\ InvAt(i, "check")
    /\ inv' = IF conn = NoConn
              THEN [inv EXCEPT ![i].step = "done", ![i].kind = "returned",
                               ![i].path = "noconn"]
              ELSE [inv EXCEPT ![i].step = "cursor"]
    /\ UNCHANGED <<conn, opened, searchVars, extractVars, pipeVars, serviceVars, backendVars>>

\* Line 107: cursor = self.conn.cursor(...), on whatever self.conn holds now;
\* None has no cursor and a closed connection gives none.
ConcCursor(i) ==
    /\ InvAt(i, "cursor")
    /\ inv' = IF conn = NoConn \/ conn \notin opened
              THEN InvExcept(i)
              ELSE [inv EXCEPT ![i].step = "primary", ![i].cursor = conn]
    /\ UNCHANGED <<conn, opened, searchVars, extractVars, pipeVars, serviceVars, backendVars>>

\* One "rows = run_query(...)" statement: cursor.execute raises when the
\* cursor's connection has been closed.
ConcAttempt(i, step, next, guard, alpha_value, with_type) ==
    /\ InvAt(i, step)
    /\ IF ~guard
       THEN inv' = [inv EXCEPT ![i].step = next]
       ELSE IF inv[i].cursor \notin opened
       THEN inv' = InvExcept(i)
       ELSE \E tie \in Rankings(store) :
               inv' = [inv EXCEPT
                         ![i].step = next,
                         ![i].rows = run_query(Against(store, QueryVector),
                                               ConcCall.issue_type,
                                               alpha_value, with_type, tie)]
    /\ UNCHANGED <<conn, opened, searchVars, extractVars, pipeVars, serviceVars, backendVars>>

ConcPrimaryQuery(i) ==
    ConcAttempt(i, "primary", "second", PrimaryGuard(inv[i].rows),
                ConcCall.alpha, TRUE)

ConcSecondQuery(i) ==
    ConcAttempt(i, "second", "third", SecondGuard(inv[i].rows), HalfWeight, TRUE)

ConcThirdQuery(i) ==
    ConcAttempt(i, "third", "fourth",
                ThirdGuard(inv[i].rows, ConcCall.issue_type), ConcCall.alpha, FALSE)

ConcFourthQuery(i) ==
    ConcAttempt(i, "fourth", "filter", FourthGuard(inv[i].rows), HalfWeight, FALSE)

\* Lines 149-150, then the finally clause begins.
ConcFilter(i) ==
    /\ InvAt(i, "filter")
    /\ inv' = [inv EXCEPT
                 ![i].step = "disconnect",
                 ![i].path = "normal",
                 ![i].rows = LimitSlice(CutoffFilter(inv[i].rows,
                                                     ConcCall.min_cutoff),
                                        ConcCall.limit)]
    /\ UNCHANGED <<conn, opened, searchVars, extractVars, pipeVars, serviceVars, backendVars>>

\* Line 27: if self.conn:
ConcDisconnect(i) ==
    /\ InvAt(i, "disconnect")
    /\ inv' = IF conn = NoConn
              THEN [inv EXCEPT ![i].step = "done", ![i].kind = "returned"]
              ELSE [inv EXCEPT ![i].step = "close"]
    /\ UNCHANGED <<conn, opened, searchVars, extractVars, pipeVars, serviceVars, backendVars>>

\* Line 28: self.conn.close(), on whatever self.conn holds now; on None the
\* AttributeError leaves find_similar_issues through its finally clause.
ConcClose(i) ==
    /\ InvAt(i, "close")
    /\ IF conn = NoConn
       THEN /\ inv' = [inv EXCEPT ![i].step = "done", ![i].kind = "raised",
                                  ![i].rows = <<>>]
            /\ UNCHANGED opened
       ELSE /\ inv' = [inv EXCEPT ![i].step = "clear",
                                  ![i].closed = @ \union {conn}]
            /\ opened' = opened \ {conn}
    /\ UNCHANGED <<conn, searchVars, extractVars, pipeVars, serviceVars, backendVars>>

\* Line 29: self.conn = None, and the call returns.
ConcClear(i) ==
    /\ InvAt(i, "clear")
    /\ conn' = NoConn
    /\ inv' = [inv EXCEPT ![i].step = "done", ![i].kind = "returned"]
    /\ UNCHANGED <<opened, searchVars, extractVars, pipeVars, serviceVars, backendVars>>

InitConc ==
    /\ store \in Stores(PipeRows, MaxRows)
    /\ call = ConcCall
    /\ queryLog = <<>>
    /\ fsi = IdleFsi
    /\ cases = <<>>
    /\ recs = IdleRecs
    /\ pc = "similarity_searcher"
    /\ state = [user_issue |-> <<"o", "i", "l">>, machine_series |-> <<"L">>]
    /\ visited = <<>>
    /\ failed = {}
    /\ result = <<>>
    /\ conn = NoConn
    /\ opened = {}
    /\ inv = [i \in Invocations |-> [IdleInv EXCEPT !.step = "connect"]]
    /\ IdleServices
    /\ IdleBackend

NextConc ==
    \E i \in Invocations :
        \/ ConcConnect(i)
        \/ ConcCheck(i)
        \/ ConcCursor(i)
        \/ ConcPrimaryQuery(i)
        \/ ConcSecondQuery(i)
        \/ ConcThirdQuery(i)
        \/ ConcFourthQuery(i)
        \/ ConcFilter(i)
        \/ ConcDisconnect(i)
        \/ ConcClose(i)
        \/ ConcClear(i)

SpecConc == InitConc /\ [][NextConc]_vars

----------------------------------------------------------------------------
(* Properties of process_issue (Spec) *)

AllStages ==
    <<"symptom_analysis", "embedding_generation", "similarity_search",
      "parts_recommendation", "inventory_check", "confidence_evaluation",
      "formatting", "completed">>

IsPrefix(a, b) == Len(a) <= Len(b) /\ a = SubSeq(b, 1, Len(a))

Succeeded == pc = "returned" /\ result.success

\* C1 as stated, for the runs that return success = true: all eight stages,
\* completed included, are visited exactly once in the fixed order.
C1_AllStagesVisited == Succeeded => visited = AllStages

\* C1 (amended): no stage is ever skipped, repeated or visited out of order,
\* and in every run that returns success = true the seven stages
\* symptom_analysis .. formatting are each visited exactly once, also when
\* an earlier stage failed; completed follows exactly when the formatting
\* node itself does not fail.
C1_StageOrder ==
    /\ IsPrefix(visited, AllStages)
    /\ Succeeded =>
          visited = IF "recommendation_formatter" \in failed
                    THEN SubSeq(AllStages, 1, 7)
                    ELSE AllStages

C1_Witness ==
    /\ Succeeded
    /\ {"symptom_analyzer", "recommendation_formatter"} \subseteq failed
    /\ visited = SubSeq(AllStages, 1, 7)
    /\ state.workflow_stage = "formatting"

\* C2: a failure inside a stage node never fails the run: the failing stage
\* leaves its safe default, every later stage still runs in order and the
\* result has success = true; success = false is returned only when the
\* orchestration itself fails.
C2_StageFailureContained ==
    pc = "returned" =>
        /\ result.success = ("orchestration" \notin failed)
        /\ result.success =>
              /\ SubSeq(AllStages, 1, 7) = SubSeq(visited, 1, Min(7, Len(visited)))
              /\ "symptom_analyzer" \in failed =>
                    state.processed_symptoms = <<state.user_issue>>
              /\ "embedding_generator" \in failed =>
                    state.embedding_vector = None /\ ~result.embedding_used
              /\ "similarity_searcher" \in failed =>
                    state.similar_cases = <<>> /\ result.similar_cases_count = 0
              /\ "parts_recommender" \in failed =>
                    state.recommended_parts = <<>>
                    /\ result.final_recommendations = <<>>

C2_Witness ==
    /\ Succeeded
    /\ {"symptom_analyzer", "embedding_generator", "confidence_evaluator"}
          \subseteq failed
    /\ visited = AllStages

\* C3: whenever a stage node fails internally, the returned error_message is
\* non-null.
C3_ErrorMessageRecorded ==
    (Succeeded /\ failed # {}) => result.error_message # None

----------------------------------------------------------------------------
(* Properties of find_similar_issues (SpecSearch) *)

Returned == fsi.kind = "returned"

\* The plan of lines 141-147 written out: the attempts the call may make.
Plan(c) ==
    <<Query(c.alpha, TRUE, c.issue_type), Query(HalfWeight, TRUE, c.issue_type)>>
    \o (IF c.issue_type # <<>> THEN <<Query(c.alpha, FALSE, c.issue_type)>>
        ELSE <<>>)
    \o <<Query(HalfWeight, FALSE, c.issue_type)>>

HasRows(q) == Candidates(store, q.with_type, call.issue_type) # {}

\* C4: if the primary query (w = alpha, with the type filter) returns at
\* least one row, exactly one query is sent to the store for that call.
C4_NoFallbackAfterPrimaryHit ==
    (Returned /\ queryLog # <<>> /\ fsi.path = "normal"
        /\ HasRows(Query(call.alpha, TRUE, call.issue_type)))
    => queryLog = <<Query(call.alpha, TRUE, call.issue_type)>>

C4_Witness ==
    /\ Returned /\ fsi.path = "normal"
    /\ call.issue_type # <<>>
    /\ HasRows(Query(call.alpha, TRUE, call.issue_type))
    /\ Len(queryLog) = 1
    /\ fsi.rows # <<>>

\* C5: when the primary query returns no row, the fallbacks are issued in
\* the order (0.5, type filter), (alpha, no filter) only with a type hint,
\* (0.5, no filter), stopping at the first that returns rows; every returned
\* case comes from that one attempt.
C5_FallbackOrder ==
    (Returned /\ fsi.path = "normal"
        /\ ~HasRows(Query(call.alpha, TRUE, call.issue_type)))
    => LET plan == Plan(call)
           hits == {k \in 1..Len(plan) : HasRows(plan[k])}
           stop == IF hits = {} THEN Len(plan)
                   ELSE CHOOSE k \in hits : \A h \in hits : k <= h
       IN  /\ queryLog = SubSeq(plan, 1, stop)
           /\ fsi.rows # <<>> => fsi.attempt = stop
           /\ \A i \in 1..Len(fsi.rows) :
                 LET row == fsi.rows[i]
                 IN  /\ row.claimid \in Candidates(store, plan[stop].with_type,
                                                   call.issue_type)
                     /\ row.similarity_score =
                           SimilarityScore(store[row.claimid],
                                           plan[stop].alpha_value)

C5_Witness ==
    /\ Returned /\ fsi.path = "normal"
    /\ call.issue_type # <<>>
    /\ Len(queryLog) = 3
    /\ fsi.rows # <<>>

\* C6: the returned sequence is ordered by similarity_score descending, holds
\* only cases with similarity_score >= min_cutoff, and at most limit entries.
C6_SortedCutoffLimit ==
    Returned =>
        /\ \A i, j \in 1..Len(fsi.rows) :
              i < j => fsi.rows[i].similarity_score >= fsi.rows[j].similarity_score
        /\ \A i \in 1..Len(fsi.rows) :
              fsi.rows[i].similarity_score >= call.min_cutoff
        /\ Len(fsi.rows) <= call.limit

C6_Witness ==
    /\ Returned
    /\ call.limit = 1
    /\ Len(fsi.rows) = 1
    /\ \E id \in DOMAIN store :
          /\ id # fsi.rows[1].claimid
          /\ id \in Candidates(store, queryLog[Len(queryLog)].with_type,
                               call.issue_type)
          /\ SimilarityScore(store[id], queryLog[Len(queryLog)].alpha_value)
                >= call.min_cutoff
          /\ SimilarityScore(store[id], queryLog[Len(queryLog)].alpha_value)
                < fsi.rows[1].similarity_score

\* C7: find_similar_issues never raises; when no row matches, when the
\* connection cannot be opened, or when a query faults, it returns the empty
\* sequence.
C7_NeverRaises ==
    /\ fsi.kind \in {"idle", "running", "returned"}
    /\ (Returned /\ (fsi.path \in {"noconn", "except"}
                     \/ Candidates(store, FALSE, call.issue_type) = {}))
       => fsi.rows = <<>>

C7_Witness ==
    /\ Returned
    /\ fsi.path = "except"
    /\ Len(queryLog) >= 2
    /\ fsi.rows = <<>>

----------------------------------------------------------------------------
(* Properties of extract_recommended_parts (SpecExtract) *)

\* The part tokens of the cases, in scanning order.
RECURSIVE TokenStream(_)
TokenStream(cs) ==
    IF cs = <<>> THEN <<>>
    ELSE LET pieces == Split(Head(cs).partname)
             kept == SelectSeq([i \in 1..Len(pieces) |-> Strip(pieces[i])],
                               LAMBDA t : t # <<>> /\ Lower(t) # NanToken)
         IN  kept \o TokenStream(Tail(cs))

Occurrences(stream, p) == Cardinality({i \in 1..Len(stream) : stream[i] = p})

FirstSeen(stream, p) ==
    CHOOSE i \in 1..Len(stream) :
        stream[i] = p /\ \A j \in 1..(i - 1) : stream[j] # p

\* C8: the returned list is sorted by frequency descending, and parts of
\* equal frequency appear in the order in which they were first seen.
C8_SortedStable ==
    recs.done =>
        LET s == TokenStream(cases)
            out == recs.out
        IN  \A i, j \in 1..Len(out) :
               i < j =>
                  /\ out[i].frequency = Occurrences(s, out[i].part_number)
                  /\ out[i].frequency >= out[j].frequency
                  /\ out[i].frequency = out[j].frequency =>
                        FirstSeen(s, out[i].part_number)
                           < FirstSeen(s, out[j].part_number)

C8_Witness ==
    /\ recs.done
    /\ \E i, j \in 1..Len(recs.out) :
          i < j /\ recs.out[i].frequency > recs.out[j].frequency
    /\ \E i, j \in 1..Len(recs.out) :
          i < j /\ recs.out[i].frequency = recs.out[j].frequency

\* C9: at most 10 entries are returned, the 10 of highest frequency when more
\* than 10 distinct parts occur, and the empty list for the empty case list.
C9_AtMostTen ==
    recs.done =>
        LET s == TokenStream(cases)
            out == recs.out
            kept == {out[i].part_number : i \in 1..Len(out)}
        IN  /\ Len(out) <= 10
            /\ Len(out) = Min(10, Cardinality(Range(s)))
            /\ Cardinality(kept) = Len(out)
            /\ kept \subseteq Range(s)
            /\ \A p \in Range(s) \ kept : \A q \in kept :
                  Occurrences(s, q) >= Occurrences(s, p)
            /\ cases = <<>> => out = <<>>

C9_Witness ==
    /\ recs.done
    /\ Cardinality(Range(TokenStream(cases))) > 10
    /\ Len(recs.out) = 10
    /\ recs.out[1].frequency > recs.out[10].frequency

\* C10: confidence is frequency / total_cases rounded to 3 decimals, with
\* total_cases the number of input cases (those without parts included), and
\* the justification is "{frequency}/{total_cases} similar cases".
C10_ConfidenceRatio ==
    recs.done =>
        \A i \in 1..Len(recs.out) :
           LET r == recs.out[i]
               f == Occurrences(TokenStream(cases), r.part_number)
               t == Len(cases)
               d == r.confidence * t - 1000 * f
           IN  /\ r.frequency = f
               /\ 2 * d <= t /\ 2 * (0 - d) <= t
               /\ r.recommended_from = <<f, "/", t, " similar cases">>

C10_Witness ==
    /\ recs.done
    /\ \E i \in 1..Len(cases) : cases[i].partname = <<>>
    /\ \E i \in 1..Len(recs.out) : recs.out[i].confidence \notin {0, 1000}

\* C11: every recommendation returned by extract_recommended_parts has a
\* confidence in [0, 1]: its frequency never exceeds total_cases.
C11_ConfidenceInUnitInterval ==
    recs.done =>
        \A i \in 1..Len(recs.out) :
           /\ recs.out[i].frequency <= Len(cases)
           /\ recs.out[i].confidence >= 0
           /\ recs.out[i].confidence <= 1000

\* How often part p is listed in the parts field of one case.
CaseCount(case, p) == Occurrences(TokenStream(<<case>>), p)

\* C25: extract_recommended_parts counts every token occurrence: a part
\* listed k times in one case's comma-delimited parts field adds k to that
\* part's frequency, while total_cases still counts that case once.
C25_EveryOccurrenceCounted ==
    recs.done =>
        \A i \in 1..Len(recs.out) :
           LET r == recs.out[i]
           IN  /\ r.frequency =
                     SeqSum([c \in 1..Len(cases) |->
                                CaseCount(cases[c], r.part_number)])
               /\ r.recommended_from[3] = Len(cases)

C25_Witness ==
    /\ recs.done
    /\ \E i \in 1..Len(recs.out), c \in 1..Len(cases) :
          /\ CaseCount(cases[c], recs.out[i].part_number) >= 2
          /\ recs.out[i].frequency >
                Cardinality({d \in 1..Len(cases) :
                                CaseCount(cases[d], recs.out[i].part_number) > 0})

----------------------------------------------------------------------------
(* Properties of confidence_evaluator_node and recommendation_formatter_node *)
(* (SpecNodes)                                                              *)

\* The evaluator has stored its scores.
Evaluated == state.confidence_scores.kind = "scores"

\* The formatter has run to its end.
Formatted == state.workflow_stage = "completed"

\* C12: case_similarity is the mean of the cases' similarity_score (0.0 if
\* none), parts_confidence the mean of the recommendations' confidence (0.0
\* if none), overall_confidence = 0.4 * case_similarity + 0.6 *
\* parts_confidence, and quality is "high" iff overall > 0.8, "medium" iff
\* 0.6 < overall <= 0.8, "low" otherwise.
C12_ConfidenceScores ==
    Evaluated =>
        LET scores == [i \in 1..Len(state.similar_cases) |->
                          state.similar_cases[i].similarity_score]
            confs == [i \in 1..Len(state.recommended_parts) |->
                         state.recommended_parts[i].confidence]
            c == state.confidence_scores
            cs == c.case_similarity
            pcf == c.parts_confidence
            ov == c.overall_confidence
        IN  /\ cs.den > 0 /\ pcf.den > 0 /\ ov.den > 0
            /\ IF scores = <<>> THEN cs.num = 0
               ELSE cs.num * Len(scores) = SeqSum(scores) * cs.den
            /\ IF confs = <<>> THEN pcf.num = 0
               ELSE pcf.num * Len(confs) = SeqSum(confs) * pcf.den
            /\ 10 * ov.num * cs.den * pcf.den
                  = (4 * cs.num * pcf.den + 6 * pcf.num * cs.den) * ov.den
            /\ c.quality \in {"high", "medium", "low"}
            /\ c.quality = "high" <=> ov.num > 800 * ov.den
            /\ c.quality = "medium" <=>
                  (ov.num > 600 * ov.den /\ ov.num <= 800 * ov.den)
            /\ c.quality = "low" <=> ov.num <= 600 * ov.den

C12_Witness ==
    /\ Evaluated
    /\ Len(state.similar_cases) = 2
    /\ state.similar_cases[1].similarity_score
          # state.similar_cases[2].similarity_score
    /\ state.recommended_parts # <<>>
    /\ state.confidence_scores.overall_confidence.num
          = 800 * state.confidence_scores.overall_confidence.den
    /\ state.confidence_scores.quality = "medium"

\* C13: after the formatting stage final_recommendations holds exactly the
\* recommended parts, ordered by confidence descending, each with priority
\* "high" if its confidence > 0.8, "medium" if > 0.6, else "low".
C13_FinalRecommendations ==
    Formatted =>
        LET parts == state.recommended_parts
            final == state.final_recommendations
        IN  /\ Len(final) = Len(parts)
            /\ \A i \in 1..Len(parts) : \E j \in 1..Len(final) :
                  /\ final[j].part_number = parts[i].part_number
                  /\ final[j].confidence = parts[i].confidence
                  /\ final[j].frequency = parts[i].frequency
                  /\ final[j].reasoning = parts[i].reasoning
            /\ \A j, k \in 1..Len(final) :
                  j < k => final[j].confidence >= final[k].confidence
            /\ \A j \in 1..Len(final) :
                  final[j].priority =
                     IF final[j].confidence > 800 THEN "high"
                     ELSE IF final[j].confidence > 600 THEN "medium"
                     ELSE "low"

C13_Witness ==
    /\ Formatted
    /\ Len(state.recommended_parts) = 2
    /\ state.recommended_parts[1].confidence = 800
    /\ state.recommended_parts[2].confidence = 801
    /\ state.final_recommendations[1].priority = "high"
    /\ state.final_recommendations[2].priority = "medium"

\* C14: after the formatting stage next_actions holds exactly one tier action
\* chosen by overall_confidence (> 0.8 proceed, > 0.6 review with a
\* technician, otherwise gather more diagnostic information; a missing
\* overall_confidence counts as 0), followed by "Order out-of-stock parts" if
\* and only if the inventory status lists a recommended part as out of stock.
C14_NextActions ==
    Formatted =>
        LET c == state.confidence_scores
            ov == IF c.kind = "scores" THEN c.overall_confidence ELSE Frac(0, 1)
            status == state.inventory_status
            flagged ==
                /\ status.kind = "status"
                /\ \E i \in 1..Len(state.recommended_parts) :
                      \E k \in 1..Len(status.out_of_stock_parts) :
                         status.out_of_stock_parts[k].part_number
                            = state.recommended_parts[i].part_number
            action ==
                IF ov.num > 800 * ov.den
                THEN "Proceed with high-confidence recommendations"
                ELSE IF ov.num > 600 * ov.den
                THEN "Review recommendations with technician"
                ELSE "Gather more diagnostic information"
        IN  state.next_actions =
               IF flagged THEN <<action, "Order out-of-stock parts">>
               ELSE <<action>>

C14_Witness ==
    /\ Formatted
    /\ state.next_actions = <<"Review recommendations with technician",
                              "Order out-of-stock parts">>
    /\ state.inventory_status.available_parts # <<>>
    /\ state.inventory_status.out_of_stock_parts # <<>>

----------------------------------------------------------------------------
(* Properties of the result of process_issue (Spec) *)

FullySuccessful == Succeeded /\ failed = {}

\* C15 as stated: on a fully successful run (no stage fails) the returned
\* processing_log has length 7, one entry per executed stage.
C15_LogLengthSeven == FullySuccessful => Len(result.processing_log) = 7

\* C15 (amended): on a fully successful run the returned processing_log has
\* 14 entries when a similar case was found and 13 when none was: every stage
\* appends an entry when it starts and one when it finishes, except the
\* parts recommender, which appends only its first entry when there are no
\* similar cases.
C15_LogTwoPerStage ==
    FullySuccessful =>
        LET log == result.processing_log
        IN  /\ Len(log) = IF state.similar_cases = <<>> THEN 13 ELSE 14
            /\ log[1].msg = "Starting symptom analysis"
            /\ log[2].msg = "Generated processed symptoms"
            /\ log[Len(log) - 1].msg = "Formatting final recommendations"
            /\ log[Len(log)].msg = "Workflow completed successfully"

C15_Witness ==
    /\ FullySuccessful
    /\ state.similar_cases # <<>>
    /\ Len(result.processing_log) = 14

\* C16: with an empty similarity store every search attempt of a run comes
\* back empty, no part is recommended, the evaluator stores case_similarity =
\* parts_confidence = overall_confidence = 0.0 with quality "low", and the run
\* ends with final_recommendations = [] and next_actions = ["Gather more
\* diagnostic information"].
C16_EmptyStore ==
    (store = <<>> /\ Succeeded) =>
        /\ fsi.path = "normal" => queryLog = Plan(call)
        /\ fsi.rows = <<>>
        /\ state.similar_cases = <<>>
        /\ result.similar_cases_count = 0
        /\ state.recommended_parts = <<>>
        /\ result.final_recommendations = <<>>
        /\ "confidence_evaluator" \notin failed =>
              /\ result.confidence_scores.case_similarity.num = 0
              /\ result.confidence_scores.parts_confidence.num = 0
              /\ result.confidence_scores.overall_confidence.num = 0
              /\ result.confidence_scores.quality = "low"
        /\ "recommendation_formatter" \notin failed =>
              result.next_actions = <<"Gather more diagnostic information">>

C16_Witness ==
    /\ store = <<>>
    /\ FullySuccessful
    /\ fsi.path = "normal"
    /\ Len(queryLog) = 3
    /\ result.confidence_scores.quality = "low"
    /\ result.next_actions = <<"Gather more diagnostic information">>

\* The output fields of process_issue.
OutputFields ==
    {"success", "final_recommendations", "explanation", "confidence_scores",
     "similar_cases_count", "next_actions", "processing_log", "error_message"}

\* C17: every value returned by process_issue, with success = true or
\* success = false, carries all the output fields.
C17_CompleteResponse == pc = "returned" => OutputFields \subseteq DOMAIN result

----------------------------------------------------------------------------
(* Properties of generate_openai_embedding and of the empty query text      *)
(* (SpecSearch)                                                             *)

\* generate_openai_embedding has returned to find_similar_issues.
Embedded == fsi.embedding # NoVector

\* C19: generate_openai_embedding returns a vector of 1536 entries for every
\* text on which it returns, and for the empty text the all-zero vector of
\* that length, without a call to the remote model.
C19_EmbeddingDimension ==
    /\ Embedded =>
          /\ fsi.embedding.dim = 1536
          /\ fsi.embedding.zero <=> call.issue_text = <<>>
    /\ (Embedded /\ call.issue_text # <<>>) => fsi.remote_calls = 1
    /\ call.issue_text = <<>> => fsi.remote_calls = 0

C19_Witness ==
    /\ call.issue_text = <<>>
    /\ Embedded
    /\ fsi.embedding = [kind |-> "vector", dim |-> 1536, zero |-> TRUE]
    /\ fsi.remote_calls = 0
    /\ fsi.step = "primary"

\* C20: when the query text is empty, find_similar_issues returns the empty
\* result set and sends no similarity query to the store.
C20_EmptyTextNoQuery ==
    call.issue_text = <<>> =>
        /\ queryLog = <<>>
        /\ Returned => fsi.rows = <<>>

----------------------------------------------------------------------------
(* Properties of concurrent invocations (SpecConc) *)

\* What the call returns when it runs alone, the store breaking ties as tie.
AloneRows(st, c, tie) ==
    LET plan == Plan(c)
        hits == {k \in 1..Len(plan) :
                    Candidates(st, plan[k].with_type, c.issue_type) # {}}
        first == CHOOSE k \in hits : \A h \in hits : k <= h
    IN  IF hits = {} THEN <<>>
        ELSE LimitSlice(
                 CutoffFilter(run_query(Against(st, QueryVector), c.issue_type,
                                        plan[first].alpha_value,
                                        plan[first].with_type, tie),
                              c.min_cutoff),
                 c.limit)

\* C18: for every interleaving of two invocations on the same agent, each
\* invocation's store queries run on the connection that invocation opened,
\* no invocation closes or replaces a connection another is using, and each
\* returns the result it would return running alone.
C18_InvocationsIsolated ==
    \A i \in Invocations :
        /\ inv[i].cursor \in {NoConn, i}
        /\ inv[i].closed \subseteq {i}
        /\ inv[i].replaced = NoConn
        /\ inv[i].step = "done" =>
              /\ inv[i].kind = "returned"
              /\ \E tie \in Rankings(store) :
                    inv[i].rows = AloneRows(store, ConcCall, tie)

----------------------------------------------------------------------------
(* Properties of the stage failures of process_issue (Spec) *)

\* find_similar_issues could not connect, or a statement of its try block
\* faulted.
SearchFaulted == fsi.path \in {"noconn", "except"}

\* C21: when the similarity store is unreachable or faults during the
\* similarity_search stage, the result reports zero similar cases together
\* with a non-null error_message naming the search failure, and the later
\* stages still run.
C21_SearchFaultNoted ==
    (Succeeded /\ SearchFaulted) =>
        /\ result.similar_cases_count = 0
        /\ SubSeq(AllStages, 1, 7) = SubSeq(visited, 1, Min(7, Len(visited)))
        /\ failed \subseteq {"similarity_searcher"} =>
              result.error_message = "Similarity search failed"

\* C22: when the embedding_generation stage fails, the state records the
\* error message, embedding_vector is null, and the similarity_search stage
\* goes on with text-only matching: no further call to the embedding
\* provider is made in that run.
C22_TextOnlyAfterEmbeddingFailure ==
    "embedding_generator" \in failed =>
        /\ state.embedding_vector = None
        /\ (pc = "similarity_searcher" /\ fsi.kind = "idle") =>
              state.error_message = "Embedding generation failed"
        /\ fsi.remote_calls = 0

\* C23: if symptom rewriting fails (the symptom service errors internally or
\* yields no suggestion), processed_symptoms after the symptom_analysis stage
\* is exactly the one-element list holding the original issue text.
C23_SymptomFallback ==
    (symptoms # NoAnswer /\ (symptoms.error \/ symptoms.list = <<>>)) =>
        state.processed_symptoms = <<state.user_issue>>

----------------------------------------------------------------------------
(* Properties of the cascade of find_similar_issues (SpecSearch) *)

\* The cascade of call c on store st: whether attempt k of its plan returns
\* rows.
AttemptReturnsRows(st, c, k) ==
    LET q == Plan(c)[k]
        tie == CHOOSE t \in Rankings(st) : TRUE
    IN  run_query(Against(st, Vector(EmbeddingDim, FALSE)), c.issue_type,
                  q.alpha_value, q.with_type, tie) # <<>>

\* C24: each step of the cascading fallback is strictly broader than the
\* step before it: on every store an attempt returns rows whenever the
\* previous attempt did, and for each step there is a store on which it
\* returns rows although the previous attempt returned none.
C24_StrictlyBroader ==
    /\ \A k \in 2..Len(Plan(call)) :
          AttemptReturnsRows(store, call, k - 1) =>
              AttemptReturnsRows(store, call, k)
    /\ \A k \in 2..4 :
          \E c \in Calls, st \in Stores(SearchRows, MaxRows) :
              /\ Len(Plan(c)) = 4
              /\ AttemptReturnsRows(st, c, k)
              /\ ~AttemptReturnsRows(st, c, k - 1)

\* The first attempt of the plan of the call that returns rows, 0 if none
\* does.
FirstHit ==
    LET hits == {k \in 1..Len(Plan(call)) : HasRows(Plan(call)[k])}
    IN  IF hits = {} THEN 0 ELSE CHOOSE k \in hits : \A h \in hits : k <= h

\* The scores of the rows attempt k of the plan selects.
ScoresOf(k) ==
    {SimilarityScore(Against(store, fsi.embedding)[id], Plan(call)[k].alpha_value) :
        id \in Candidates(store, Plan(call)[k].with_type, call.issue_type)}

Below(score, min_cutoff) == score = NaN \/ score < min_cutoff

\* C27: the cutoff never triggers the cascade: if the first attempt that
\* returns rows returns only rows scoring below min_cutoff, the call returns
\* the empty list and sends no further, broader query, even when a broader
\* attempt would have produced cases at or above the cutoff.
C27_CutoffNeverTriggersFallback ==
    (Returned /\ fsi.path = "normal" /\ FirstHit # 0
        /\ \A score \in ScoresOf(FirstHit) : Below(score, call.min_cutoff))
    => /\ fsi.rows = <<>>
       /\ queryLog = SubSeq(Plan(call), 1, FirstHit)

C27_Witness ==
    /\ Returned /\ fsi.path = "normal" /\ FirstHit # 0
    /\ \A score \in ScoresOf(FirstHit) : Below(score, call.min_cutoff)
    /\ \E k \in (FirstHit + 1)..Len(Plan(call)) :
          \E score \in ScoresOf(k) : ~Below(score, call.min_cutoff)
    /\ call.limit > 0
    /\ fsi.rows = <<>>
    /\ Len(queryLog) = FirstHit

----------------------------------------------------------------------------
(* Sequential use of AdaptedTicketProcessor: one method call at a time on   *)
(* one processor, with the calls it makes itself (process_existing_ticket   *)
(* calls find_similar_issues and save_recommendations).  conn is self.conn, *)
(* opened the connections that are open; the k-th connection opened during  *)
(* the call is connection k.                                                *)

ProcessorMethods ==
    {"create_ticket", "find_similar_issues", "save_recommendations",
     "process_existing_ticket", "get_all_tickets", "get_ticket_recommendations"}

\* The methods whose except clause rolls the transaction back.
RollsBack == {"create_ticket", "save_recommendations"}

\* Rows of the tickets table.
Tickets == [issue_text : {<<"o", "i", "l">>}, issue_type : {<<>>, <<"L">>}]

TicketLimit == 10

\* Line 258: find_similar_issues(issue_text, issue_type, limit=10)
TicketSearchCall(ticket) ==
    [issue_text |-> ticket.issue_text, issue_type |-> ticket.issue_type,
     limit |-> TicketLimit, alpha |-> DefaultAlpha,
     min_cutoff |-> DefaultCutoff]

\* A value handed back by a method, or the exception that left it.
Value(kind) == [kind |-> kind, rows |-> <<>>, recommendations |-> <<>>]

NoValue == Value("none")

Raised == Value("raised")

\* What each method returns when no connection opens or its except clause
\* runs: None, [] or False.
Default(method) ==
    IF method \in {"find_similar_issues", "get_all_tickets",
                   "get_ticket_recommendations"}
    THEN Value("rows")
    ELSE IF method = "save_recommendations" THEN Value("false")
    ELSE Value("null")

Frame(method, step) == [method |-> method, step |-> step, pending |-> NoValue]

Top == proc.stack[Len(proc.stack)]

Running(methods, step) ==
    /\ proc.kind = "active"
    /\ proc.stack # <<>>
    /\ Top.method \in methods
    /\ Top.step = step

\* The running method moves to step, holding value as what it will return.
Goto(step, value) ==
    [proc EXCEPT !.stack[Len(proc.stack)].step = step,
                 !.stack[Len(proc.stack)].pending = value]

DisconnectKeepsReference(p) ==
    IF conn # NoConn
    THEN [conn |-> conn, opened |-> opened \ {conn},
          proc |-> [p EXCEPT !.closes[conn] = @ + 1]]
    ELSE [conn |-> conn, opened |-> opened, proc |-> p]

\* disconnect(): if self.conn: self.conn.close(); self.conn = None
Disconnect(p) ==
    IF conn # NoConn
    THEN [conn |-> NoConn, opened |-> opened \ {conn},
          proc |-> [p EXCEPT !.closes[conn] = @ + 1]]
    ELSE [conn |-> conn, opened |-> opened, proc |-> p]

\* A method of the processor is called on a processor at rest.
ProcCall ==
    /\ proc = IdleProc
    /\ \E method \in ProcessorMethods, ticket \in Tickets,
          given \in NodeCaseLists :
          proc' = [kind |-> "active",
                   method |-> method,
                   stack |-> <<Frame(method, "connect")>>,
                   ticket |-> ticket,
                   similar_cases |->
                       IF method = "save_recommendations" THEN given ELSE <<>>,
                   recommendations |-> <<>>,
                   save |-> "none",
                   ret |-> NoValue,
                   out |-> NoValue,
                   closes |-> <<>>]
    /\ UNCHANGED <<searchVars, extractVars, pipeVars, conn, opened, inv,
                   serviceVars, svc, stock>>

\* "if not self.connect_to_database() or self.conn is None: return ...":
\* db_utils.connect_to_database hands back a new connection or None.
ProcConnect ==
    /\ Running(ProcessorMethods, "connect")
    /\ \E connOk \in BOOLEAN :
          IF connOk
          THEN /\ conn' = Len(proc.closes) + 1
               /\ opened' = opened \union {Len(proc.closes) + 1}
               /\ proc' = [Goto("try", NoValue) EXCEPT
                             !.closes = Append(@, 0)]
          ELSE /\ conn' = NoConn
               /\ opened' = opened
               /\ proc' = [Goto("return", Default(Top.method)) EXCEPT
                             !.save = IF Top.method = "save_recommendations"
                                      THEN "noconn" ELSE @]
    /\ UNCHANGED <<searchVars, extractVars, pipeVars, inv, serviceVars,
                   svc, stock>>

\* The try block of create_ticket, get_all_tickets and
\* get_ticket_recommendations: it returns its value, or a statement raises
\* and the except clause (after rollback, where there is one) returns the
\* default; rollback itself raises on a connection that is lost.
ProcTry ==
    /\ Running({"create_ticket", "get_all_tickets",
                "get_ticket_recommendations"}, "try")
    /\ \E outcome \in {"value", "fault", "rollback_raises"} :
          /\ outcome = "rollback_raises" => Top.method \in RollsBack
          /\ proc' = Goto("finally",
                          IF outcome = "value" THEN Value("value")
                          ELSE IF outcome = "fault" THEN Default(Top.method)
                          ELSE Raised)
    /\ UNCHANGED <<searchVars, extractVars, pipeVars, connVars, serviceVars,
                   svc, stock>>

\* The try block of find_similar_issues (lines 106-154): the rows of the
\* cascade after cutoff and slice, or [] from the except clause.
ProcSearch ==
    /\ Running({"find_similar_issues"}, "try")
    /\ \E fault \in BOOLEAN, tie \in Rankings(store) :
          proc' = Goto("finally",
                       IF fault THEN Value("rows")
                       ELSE [Value("rows") EXCEPT
                               !.rows = AloneRows(store,
                                                  TicketSearchCall(proc.ticket),
                                                  tie)])
    /\ UNCHANGED <<searchVars, extractVars, pipeVars, connVars, serviceVars,
                   svc, stock>>

\* The try block of save_recommendations (lines 197-230): the inserts and
\* the commit return True; a fault is rolled back and returns False, and the
\* rollback raises when the connection is lost.
ProcSave ==
    /\ Running({"save_recommendations"}, "try")
    /\ \E outcome \in {"value", "fault", "rollback_raises"} :
          proc' = [Goto("finally",
                        IF outcome = "value" THEN Value("true")
                        ELSE IF outcome = "fault" THEN Value("false")
                        ELSE Raised)
                   EXCEPT !.save = IF outcome = "value" THEN "saved"
                                   ELSE "insert_fault"]
    /\ UNCHANGED <<searchVars, extractVars, pipeVars, connVars, serviceVars,
                   svc, stock>>

\* Lines 245-253 of process_existing_ticket: the ticket is read; a fault or
\* a missing ticket returns None.
ProcFetch ==
    /\ Running({"process_existing_ticket"}, "try")
    /\ \E outcome \in {"found", "missing", "fault"} :
          proc' = IF outcome = "found" THEN Goto("release", NoValue)
                  ELSE Goto("finally", Value("null"))
    /\ UNCHANGED <<searchVars, extractVars, pipeVars, connVars, serviceVars,
                   svc, stock>>

\* Lines 255-256: cursor.close(); self.disconnect()
ProcRelease ==
    /\ Running({"process_existing_ticket"}, "release")
    /\ LET d == Disconnect(Goto("search", NoValue))
       IN  conn' = d.conn /\ opened' = d.opened /\ proc' = d.proc
    /\ UNCHANGED <<searchVars, extractVars, pipeVars, inv, serviceVars,
                   svc, stock>>

\* Line 258: the call of find_similar_issues.
ProcSearchCall ==
    /\ Running({"process_existing_ticket"}, "search")
    /\ proc' = [Goto("searched", NoValue) EXCEPT
                  !.stack = Append(@, Frame("find_similar_issues", "connect"))]
    /\ UNCHANGED <<searchVars, extractVars, pipeVars, connVars, serviceVars,
                   svc, stock>>

\* Lines 259-262: with similar cases the parts are extracted and
\* save_recommendations is called.
ProcSearched ==
    /\ Running({"process_existing_ticket"}, "searched")
    /\ LET similar_cases == proc.ret.rows
           p == [Goto("result", NoValue) EXCEPT
                   !.similar_cases = similar_cases]
       IN  proc' = IF similar_cases # <<>>
                   THEN [p EXCEPT
                           !.recommendations =
                               extract_recommended_parts(similar_cases),
                           !.stack = Append(@, Frame("save_recommendations",
                                                     "connect"))]
                   ELSE p
    /\ UNCHANGED <<searchVars, extractVars, pipeVars, connVars, serviceVars,
                   svc, stock>>

\* Lines 264-280: the dict is returned, unless an exception came out of
\* save_recommendations: then the except clause of lines 282-284 returns
\* None.
ProcResult ==
    /\ Running({"process_existing_ticket"}, "result")
    /\ proc' = Goto("finally",
                    IF proc.ret.kind = "raised" THEN Value("null")
                    ELSE [Value("dict") EXCEPT
                            !.rows = proc.similar_cases,
                            !.recommendations = proc.recommendations])
    /\ UNCHANGED <<searchVars, extractVars, pipeVars, connVars, serviceVars,
                   svc, stock>>

\* The finally clause: cursor.close(); self.disconnect()
ProcFinally ==
    /\ Running(ProcessorMethods, "finally")
    /\ LET d == Disconnect(Goto("return", Top.pending))
       IN  conn' = d.conn /\ opened' = d.opened /\ proc' = d.proc
    /\ UNCHANGED <<searchVars, extractVars, pipeVars, inv, serviceVars,
                   svc, stock>>

\* The method hands its value (or its exception) to its caller.
ProcReturn ==
    /\ Running(ProcessorMethods, "return")
    /\ proc' = [proc EXCEPT
                  !.stack = SubSeq(@, 1, Len(@) - 1),
                  !.ret = Top.pending,
                  !.out = IF Len(proc.stack) = 1 THEN Top.pending ELSE @]
    /\ UNCHANGED <<searchVars, extractVars, pipeVars, connVars, serviceVars,
                   svc, stock>>

InitTicket ==
    /\ store \in Stores(PipeRows, MaxRows)
    /\ call = IdleCall
    /\ queryLog = <<>>
    /\ fsi = IdleFsi
    /\ cases = <<>>
    /\ recs = IdleRecs
    /\ IdlePipe

NextTicket ==
    \/ ProcCall
    \/ ProcConnect
    \/ ProcTry
    \/ ProcSearch
    \/ ProcSave
    \/ ProcFetch
    \/ ProcRelease
    \/ ProcSearchCall
    \/ ProcSearched
    \/ ProcResult
    \/ ProcFinally
    \/ ProcReturn

SpecTicket == InitTicket /\ [][NextTicket]_vars

----------------------------------------------------------------------------
(* Properties of the processor in sequential use (SpecTicket) *)

\* The call made on the processor is over.
ProcDone == proc.kind = "active" /\ proc.stack = <<>>

\* C26: the audit write is fire-and-forget: if save_recommendations fails
\* (no connection opens, or an insert faults), process_existing_ticket raises
\* nothing and still returns the ticket's similar-case count and the
\* recommendations it would return had the save succeeded.
C26_AuditWriteFireAndForget ==
    (ProcDone /\ proc.method = "process_existing_ticket"
        /\ proc.save \in {"noconn", "insert_fault"}) =>
        /\ proc.out.kind = "dict"
        /\ Len(proc.out.rows) = Len(proc.similar_cases)
        /\ proc.out.recommendations =
              extract_recommended_parts(proc.similar_cases)

\* C28: in sequential use, when a method of the processor returns, by any
\* path, the processor holds no connection and every connection opened
\* during the call has been closed exactly once.
C28_NoConnectionLeftOpen ==
    (/\ proc.kind = "active"
     /\ proc.ret.kind \notin {"none", "raised"}
     /\ proc.stack = <<>> \/ Top.step \in {"searched", "result"}) =>
        /\ conn = NoConn
        /\ opened = {}
        /\ \A k \in 1..Len(proc.closes) : proc.closes[k] = 1

C28_Witness ==
    /\ ProcDone
    /\ proc.method = "process_existing_ticket"
    /\ proc.out.kind = "dict"
    /\ proc.save = "saved"
    /\ proc.closes = <<1, 1, 1>>
    /\ conn = NoConn

----------------------------------------------------------------------------
(* KubotaAIService.get_ai_recommendations: the request is handed to         *)
(* process_issue and the result converted to an AIRecommendationResponse,   *)
(* or the fallback through the processor is taken.                          *)

MaxRequested == 2    \* largest max_recommendations of a request

\* AIRecommendationRequest: max_recommendations has ge=1, and min_confidence
\* its default.
Requests ==
    [max_recommendations : 1..MaxRequested, min_confidence : {DefaultCutoff}]

\* PartRecommendation(...) of the agent path.
AgentPart(rec) ==
    [part_number |-> DictGet(rec, "part_number", <<>>),
     confidence |-> DictGet(rec, "confidence", 0),
     frequency |-> DictGet(rec, "frequency", 0)]

\* PartRecommendation(...) of the fallback path.
FallbackPart(part) ==
    [part_number |-> DictGet(part, "partnumber", DictGet(part, "part_number", <<>>)),
     confidence |-> DictGet(part, "confidence", 500),
     frequency |-> DictGet(part, "frequency", 1)]

\* The field constraints of PartRecommendation: confidence in [0, 1] and
\* frequency >= 0; the constructor raises when one is broken.
ValidPart(p) == p.confidence >= 0 /\ p.confidence <= 1000 /\ p.frequency >= 0

Response(request, success, search_method, recommended_parts) ==
    [kind |-> "response", request |-> request, success |-> success,
     search_method |-> search_method, recommended_parts |-> recommended_parts]

\* The response of a path on which the parts are built: the except clause
\* answers when a PartRecommendation is refused.
Built(request, search_method, recommended_parts) ==
    IF \A i \in 1..Len(recommended_parts) : ValidPart(recommended_parts[i])
    THEN Response(request, TRUE, search_method, recommended_parts)
    ELSE Response(request, FALSE, "error", <<>>)

\* Lines 119-124: find_similar_issues(user_issue, machine_series, limit=10,
\* min_cutoff=request.min_confidence)
FallbackCall(request) ==
    [issue_text |-> state.user_issue, issue_type |-> state.machine_series,
     limit |-> TicketLimit, alpha |-> DefaultAlpha,
     min_cutoff |-> request.min_confidence]

\* Lines 38-97: process_issue has returned agent_result (result); a
\* successful result is converted, any other goes to the fallback.
GetAiRecommendations ==
    /\ pc = "returned"
    /\ svc = IdleSvc
    /\ \E request \in Requests :
          LET finals == DictGet(result, "final_recommendations", <<>>)
          IN  svc' = IF DictGet(result, "success", FALSE)
                     THEN Built(request, "langgraph_agent",
                                [i \in 1..Len(finals) |-> AgentPart(finals[i])])
                     ELSE [kind |-> "fallback", request |-> request]
    /\ UNCHANGED <<searchVars, extractVars, pipeVars, connVars, serviceVars,
                   proc, stock>>

\* Lines 116-196: _fallback_recommendation.
FallbackRecommendation ==
    /\ svc.kind = "fallback"
    /\ \E fault \in BOOLEAN, tie \in Rankings(store) :
          LET request == svc.request
              similar_issues ==
                  IF fault THEN <<>>
                  ELSE AloneRows(store, FallbackCall(request), tie)
              parts_recommendations ==
                  Take(extract_recommended_parts(similar_issues),
                       request.max_recommendations)
          IN  svc' = IF similar_issues # <<>>
                     THEN Built(request, "fallback_processor",
                                [i \in 1..Len(parts_recommendations) |->
                                    FallbackPart(parts_recommendations[i])])
                     ELSE Response(request, FALSE, "no_results", <<>>)
    /\ UNCHANGED <<searchVars, extractVars, pipeVars, connVars, serviceVars,
                   proc, stock>>

NextService ==
    \/ Next
    \/ GetAiRecommendations
    \/ FallbackRecommendation

SpecService == Init /\ [][NextService]_vars

----------------------------------------------------------------------------
(* Properties of get_ai_recommendations (SpecService) *)

\* C29: for every request, the response of get_ai_recommendations holds at
\* most request.max_recommendations recommended parts, on the agent path as
\* on the fallback path.
C29_AtMostMaxRecommendations ==
    svc.kind = "response" =>
        Len(svc.recommended_parts) <= svc.request.max_recommendations

----------------------------------------------------------------------------
(* part_service: the stock operations on one PartsInventory row *)

Max(a, b) == IF a > b THEN a ELSE b

\* PartsInventory.available_stock
available_stock(part) == Max(0, part.current_stock - part.reserved_stock)

Part(current_stock, reserved_stock, last, returned) ==
    [kind |-> "part", current_stock |-> current_stock,
     reserved_stock |-> reserved_stock, last |-> last, returned |-> returned]

\* The outcome of "try: db.commit() ... except IntegrityError: db.rollback()":
\* the changed row with the value of the success path, or the row as it was
\* with the value of the failure path.
Commit(changed, commitOk, last) ==
    IF commitOk
    THEN [changed EXCEPT !.last = last, !.returned = TRUE]
    ELSE [stock EXCEPT !.last = last, !.returned = FALSE]

\* update_stock(db, part_number, quantity_change)
update_stock ==
    /\ stock.kind = "part"
    /\ \E found \in BOOLEAN, commitOk \in BOOLEAN,
          quantity_change \in (0 - MaxStock)..MaxStock :
          LET new_stock == Max(0, stock.current_stock + quantity_change)
          IN  /\ new_stock <= MaxStock
              /\ stock' = IF ~found
                          THEN [stock EXCEPT !.last = "update_stock",
                                             !.returned = FALSE]
                          ELSE Commit([stock EXCEPT !.current_stock = new_stock],
                                      commitOk, "update_stock")
    /\ UNCHANGED <<searchVars, extractVars, pipeVars, connVars, serviceVars,
                   proc, svc>>

\* reserve_part(db, part_number, quantity)
reserve_part ==
    /\ stock.kind = "part"
    /\ \E found \in BOOLEAN, commitOk \in BOOLEAN, quantity \in 0..MaxStock :
          stock' = IF ~found \/ available_stock(stock) < quantity
                   THEN [stock EXCEPT !.last = "reserve_part",
                                      !.returned = FALSE]
                   ELSE Commit([stock EXCEPT !.reserved_stock = @ + quantity],
                               commitOk, "reserve_part")
    /\ UNCHANGED <<searchVars, extractVars, pipeVars, connVars, serviceVars,
                   proc, svc>>

\* release_reserved_part(db, part_number, quantity)
release_reserved_part ==
    /\ stock.kind = "part"
    /\ \E found \in BOOLEAN, commitOk \in BOOLEAN, quantity \in 0..MaxStock :
          stock' = IF ~found
                   THEN [stock EXCEPT !.last = "release_reserved_part",
                                      !.returned = FALSE]
                   ELSE Commit([stock EXCEPT
                                  !.reserved_stock = Max(0, @ - quantity)],
                               commitOk, "release_reserved_part")
    /\ UNCHANGED <<searchVars, extractVars, pipeVars, connVars, serviceVars,
                   proc, svc>>

\* A part that starts with 0 <= reserved_stock <= current_stock.
InitStock ==
    /\ \E current_stock \in 0..MaxStock, reserved_stock \in 0..MaxStock :
          /\ reserved_stock <= current_stock
          /\ stock = Part(current_stock, reserved_stock, "none", FALSE)
    /\ store = <<>>
    /\ call = IdleCall
    /\ queryLog = <<>>
    /\ fsi = IdleFsi
    /\ cases = <<>>
    /\ recs = IdleRecs
    /\ pc = "idle"
    /\ state = NoArgs
    /\ visited = <<>>
    /\ failed = {}
    /\ result = <<>>
    /\ IdleConn
    /\ IdleServices
    /\ proc = IdleProc
    /\ svc = IdleSvc

NextStock ==
    \/ update_stock
    \/ reserve_part
    \/ release_reserved_part

SpecStock == InitStock /\ [][NextStock]_vars

----------------------------------------------------------------------------
(* Properties of the stock operations (SpecStock) *)

\* C30: for a part that starts with 0 <= reserved_stock <= current_stock,
\* after any sequence of reserve_part, release_reserved_part (quantity >= 0)
\* and update_stock (any quantity_change) calls, 0 <= reserved_stock <=
\* current_stock still holds: never more units reserved than in stock.
C30_ReservedWithinStock ==
    /\ 0 <= stock.reserved_stock
    /\ stock.reserved_stock <= stock.current_stock

====
